---- MODULE Spec2Model ----
(***************************************************************************)
(* Model of the bundled botocore client layer of awsebcli                  *)
(* (ebcli/bundled/botocore/client.py): ClientCreator, the synthesized      *)
(* per-operation API call, pagination and waiter discovery, BaseClient     *)
(* and ClientMeta.                                                         *)
(*                                                                         *)
(* Objects live in two heaps: emitters (a sequence of handler registries,  *)
(* emitters[1] being the ClientCreator's own emitter) and clients (a       *)
(* sequence of client records).  A reference to an emitter is its index.   *)
(*                                                                         *)
(* The Elastic Beanstalk operations built on it are modelled beside it:    *)
(* waiting for the events of a request and creating application versions   *)
(* (ebcli/operations/commonops.py), and the project's config files and     *)
(* working directory (ebcli/core/fileoperations.py).                       *)
(***************************************************************************)
EXTENDS Integers, Sequences, FiniteSets, TLC

VARIABLES emitters, clients, stats, hist, loader, lastCreate, lastCall,
          pagers, handles, lastWait, wfe, fs, lastFile, cav

\* the client layer, the paginators and waiters in use, the Elastic
\* Beanstalk operations
clientVars == <<emitters, clients, stats, hist, loader, lastCreate, lastCall>>
iterVars == <<pagers, handles, lastWait>>
ebVars == <<wfe, fs, lastFile, cav>>

vars == <<clientVars, iterVars, ebVars>>

(***************************************************************************)
(* Bounds of the model.                                                    *)
(***************************************************************************)
MaxClients == 2
MaxLoads == 3
MaxRegs == 2
MaxInstances == 1

(***************************************************************************)
(* The services known to the loader, and what their models declare.        *)
(***************************************************************************)
Services == {"svcA", "svcB"}

EndpointPrefix(s) == IF s = "svcA" THEN "pa" ELSE "pb"

OperationNames(s) == IF s = "svcA" THEN {"ListThings", "GetThing"} ELSE {"PutItem"}

AllOperationNames == UNION {OperationNames(s) : s \in Services}

\* botocore.xform_name: CamelCase operation name -> snake_case method name
xform_name(name) ==
    CASE name = "ListThings" -> "list_things"
      [] name = "GetThing" -> "get_thing"
      [] name = "PutItem" -> "put_item"
      [] name = "ThingExists" -> "thing_exists"
      [] name = "ThingGone" -> "thing_gone"
      [] OTHER -> name

\* the service model's declared default signature version
ModelSignatureVersion(s) == IF s = "svcA" THEN "v4" ELSE "v2"

None == "None"
NoEmitter == 0
NoUid == <<>>

(***************************************************************************)
(* EventEmitter: a registry is the sequence of registrations in the order  *)
(* they were made.  Event names and patterns are sequences of segments.    *)
(***************************************************************************)
IsPrefix(p, e) == Len(p) <= Len(e) /\ \A i \in 1..Len(p) : p[i] = e[i]

\* register(pattern, handler, unique_id): a unique id already present makes
\* the call a no-op; without a unique id the handler is always appended.
EmitterRegister(reg, pattern, handler, uid) ==
    IF uid # NoUid /\ \E i \in 1..Len(reg) : reg[i].uid = uid
    THEN reg
    ELSE Append(reg, [pattern |-> pattern, handler |-> handler, uid |-> uid])

RECURSIVE HandlersUpTo(_, _, _)
HandlersUpTo(reg, event, k) ==
    IF k = 0 THEN <<>>
    ELSE HandlersUpTo(reg, event, k - 1) \o
         SelectSeq(reg, LAMBDA r : Len(r.pattern) = k /\ IsPrefix(r.pattern, event))

\* emit(event): the registrations that fire, most general pattern first,
\* registration order within one pattern.
EmitterEmit(reg, event) == HandlersUpTo(reg, event, Len(event))

\* copy(): a snapshot of the registrations
EmitterCopy(reg) == reg

RetryHandler(prefix, n) == [kind |-> "retry", tag |-> prefix, n |-> n]
SignHandler(c) == [kind |-> "sign", tag |-> "", n |-> c]
UserHandler(n) == [kind |-> "user", tag |-> "", n |-> n]

(***************************************************************************)
(* ClientCreator                                                           *)
(***************************************************************************)
\* _register_retries mutated: the handler is registered without a unique id
RegisterRetriesNoId(cr, s) ==
    LET prefix == EndpointPrefix(s)
        fetched == [cr EXCEPT !.stats[s].fetches = @ + 1]
    IN  IF ~loader.retry
        THEN fetched
        ELSE LET n == cr.stats[s].builds + 1
                 handler == RetryHandler(prefix, n)
             IN  [em |-> EmitterRegister(cr.em, <<"needs-retry", prefix>>,
                                         handler, NoUid),
                  stats |-> [fetched.stats EXCEPT ![s].builds = n]]

\* _register_retries mutated: the handler is registered for the service's
\* name instead of its endpoint prefix
RegisterRetriesByServiceName(cr, s) ==
    LET prefix == EndpointPrefix(s)
        fetched == [cr EXCEPT !.stats[s].fetches = @ + 1]
    IN  IF ~loader.retry
        THEN fetched
        ELSE LET n == cr.stats[s].builds + 1
                 handler == RetryHandler(prefix, n)
                 unique_id == <<"retry-config", prefix>>
             IN  [em |-> EmitterRegister(cr.em, <<"needs-retry", s>>,
                                         handler, unique_id),
                  stats |-> [fetched.stats EXCEPT ![s].builds = n]]

\* _register_retries: cr = [em |-> the creator's registry, stats |-> counters]
RegisterRetries(cr, s) ==
    LET prefix == EndpointPrefix(s)
        fetched == [cr EXCEPT !.stats[s].fetches = @ + 1]
    IN  IF ~loader.retry
        THEN fetched
        ELSE LET n == cr.stats[s].builds + 1
                 handler == RetryHandler(prefix, n)
                 unique_id == <<"retry-config", prefix>>
             IN  [em |-> EmitterRegister(cr.em, <<"needs-retry", prefix>>,
                                         handler, unique_id),
                  stats |-> [fetched.stats EXCEPT ![s].builds = n]]

\* _load_service_model mutated: retries are registered on the first load only
LoadServiceModelOnce(cr, s) ==
    IF cr.stats[s].loads > 0
    THEN [cr EXCEPT !.stats[s].loads = @ + 1]
    ELSE RegisterRetries([cr EXCEPT !.stats[s].loads = @ + 1], s)

\* _load_service_model
LoadServiceModel(cr, s) ==
    RegisterRetries([cr EXCEPT !.stats[s].loads = @ + 1], s)

(***************************************************************************)
(* Signature version resolution                                            *)
(***************************************************************************)
Regions == {"us-east-1", "cn-north-1"}

\* endpoint_resolver.construct_endpoint(prefix, region): only the
\* properties the creator reads
ConstructEndpoint(prefix, region) ==
    IF region = "cn-north-1"
    THEN [hasSignatureVersion |-> TRUE, signatureVersion |-> "s3"]
    ELSE [hasSignatureVersion |-> FALSE, signatureVersion |-> None]

\* scoped_config as seen for one service: None, a mapping without the
\* service's entry, an entry that is not a dict, or a dict entry whose
\* 'signature_version' is missing (None), empty or set.
ScopedConfigs ==
    { [kind |-> "none", signature_version |-> None],
      [kind |-> "noentry", signature_version |-> None],
      [kind |-> "nondict", signature_version |-> None],
      [kind |-> "dict", signature_version |-> None],
      [kind |-> "dict", signature_version |-> ""],
      [kind |-> "dict", signature_version |-> "s3v4"] }

\* client_config: None or a Config object
ClientConfigs ==
    { [present |-> FALSE, signature_version |-> None],
      [present |-> TRUE, signature_version |-> None],
      [present |-> TRUE, signature_version |-> "v3"] }

NoScopedConfig == [kind |-> "none", signature_version |-> None]
NoClientConfig == [present |-> FALSE, signature_version |-> None]

\* a value Python treats as true
Truthy(v) == v # None /\ v # ""

\* _get_signature_version_and_region mutated: the endpoint property is
\* applied after the scoped configuration
GetSignatureVersionEndpointLast(s, region, scoped_config) ==
    LET endpoint_config == ConstructEndpoint(EndpointPrefix(s), region)
        override == IF scoped_config.kind = "dict"
                    THEN scoped_config.signature_version ELSE None
        v1 == IF Truthy(override) THEN override ELSE ModelSignatureVersion(s)
    IN  IF endpoint_config.hasSignatureVersion
        THEN endpoint_config.signatureVersion ELSE v1

\* _get_signature_version_and_region (the signature version it returns)
GetSignatureVersion(s, region, scoped_config) ==
    LET endpoint_config == ConstructEndpoint(EndpointPrefix(s), region)
        v0 == ModelSignatureVersion(s)
        v1 == IF endpoint_config.hasSignatureVersion
              THEN endpoint_config.signatureVersion ELSE v0
        override == IF scoped_config.kind = "dict"
                    THEN scoped_config.signature_version ELSE None
    IN  IF Truthy(override) THEN override ELSE v1

(***************************************************************************)
(* BaseClient and ClientMeta                                               *)
(***************************************************************************)
\* self._cache = {}: neither 'page_config' nor 'waiter_config' is a key
EmptyCache ==
    [page_config |-> [cached |-> FALSE, value |-> {}],
     waiter_config |-> [cached |-> FALSE,
                        value |-> [empty |-> TRUE, waiters |-> {}]]]

\* BaseClient.__init__: the new client record; its emitter reference is
\* NoEmitter when event_emitter is None.
NewClient(s, serializer, endpoint, response_parser, event_emitter, request_signer) ==
    [service |-> s,
     serializer |-> serializer,
     endpoint |-> endpoint,
     response_parser |-> response_parser,
     request_signer |-> request_signer,
     cache |-> EmptyCache,
     waiter_names |-> [cached |-> FALSE, value |-> {}],
     events |-> event_emitter]

\* BaseClient.__init__: registrations it makes, ems being the emitter heap
\* and c the index of the client under construction
InitRegister(ems, event_emitter, c) ==
    IF event_emitter # NoEmitter
    THEN [ems EXCEPT ![event_emitter] =
              EmitterRegister(@, <<"request-created">>, SignHandler(c), NoUid)]
    ELSE ems

\* _get_client_args from "region_name = endpoint.region_name" on: the
\* region is the one the new endpoint reports, the resolver is asked with
\* it and the signer is built with it; c is the index of the new client
SignerFor(c, s, endpoint, scoped_config, client_config) ==
    LET region_name == endpoint.region_name
        sv == GetSignatureVersion(s, region_name, scoped_config)
    IN  [id |-> c,
         signature_version |->
            IF client_config.present /\ client_config.signature_version # None
            THEN client_config.signature_version ELSE sv,
         region_name |-> region_name]

\* the effect of one registration made through a client on its history
NoteRegistration(h, c, entry) == [h EXCEPT ![c].ownRegs = Append(@, entry)]

\* a count of uses that stops at "twice or more"
Again(n) == IF n < 2 THEN n + 1 ELSE n

\* what is remembered about a client: the client it was cloned from (0 for
\* none), the registrations its emitter began with, how many registrations
\* its parent had made when it was cloned, the registrations made through
\* it, how often the loader was asked for each of its configs and how often
\* each config was used
NewHist(parent, inherited, cloneAt) ==
    [parent |-> parent, inherited |-> inherited, cloneAt |-> cloneAt,
     ownRegs |-> <<>>, pageLoads |-> 0, waiterLoads |-> 0,
     pageUses |-> 0, waiterUses |-> 0]

SignEntry(c) == [pattern |-> <<"request-created">>, handler |-> SignHandler(c),
                 uid |-> NoUid]

CanLoad(s) == stats[s].loads < MaxLoads

\* create_client_class(service_name)
CreateClientClass(s) ==
    /\ CanLoad(s)
    /\ LET cr == LoadServiceModel([em |-> emitters[1], stats |-> stats], s)
       IN  /\ emitters' = [emitters EXCEPT ![1] = cr.em]
           /\ stats' = cr.stats
    /\ UNCHANGED <<clients, hist, loader, lastCreate, lastCall, iterVars, ebVars>>

\* create_client(service_name, region_name, scoped_config, client_config).
\* EndpointCreator.create_endpoint is given region_name; the region the
\* endpoint it makes reports is endpoint_region, which need not be the one
\* asked for.
CreateClient(s, region, endpoint_region, scoped_config, client_config) ==
    /\ Len(clients) < MaxClients
    /\ LET cr1 == LoadServiceModel([em |-> emitters[1], stats |-> stats], s)
           cr2 == LoadServiceModel(cr1, s)
           c == Len(clients) + 1
           e == Len(emitters) + 1
           event_emitter == EmitterCopy(cr2.em)
           endpoint == [id |-> c, events |-> e, region_name |-> endpoint_region]
           signer == SignerFor(c, s, endpoint, scoped_config, client_config)
           ems1 == Append([emitters EXCEPT ![1] = cr2.em], event_emitter)
       IN  /\ emitters' = InitRegister(ems1, e, c)
           /\ clients' = Append(clients, NewClient(s, c, endpoint, c, e, signer))
           /\ stats' = cr2.stats
           /\ hist' = Append(hist, [NewHist(0, event_emitter, 0)
                                      EXCEPT !.ownRegs = <<SignEntry(c)>>])
           /\ lastCreate' = [client |-> c, service |-> s, region |-> region,
                             endpoint_region |-> endpoint_region,
                             scoped_config |-> scoped_config,
                             client_config |-> client_config]
    /\ UNCHANGED <<loader, lastCall, iterVars, ebVars>>

(***************************************************************************)
(* clone_client                                                            *)
(***************************************************************************)
NoneId == 0 - 1
NoneSigner ==
    [id |-> NoneId, signature_version |-> None, region_name |-> None]
NoneEndpoint == [id |-> NoneId, events |-> NoEmitter, region_name |-> None]

\* collaborators a caller can pass to clone_client as overrides
OtherSigner ==
    [id |-> 0, signature_version |-> "v4", region_name |-> "us-east-1"]
OtherEndpoint ==
    [id |-> 0, events |-> NoEmitter, region_name |-> "us-east-1"]
OtherId == 0

NoOverrides ==
    [serializer |-> NoneId, endpoint |-> NoneEndpoint,
     response_parser |-> NoneId, request_signer |-> NoneSigner]

\* no override, the signer alone, the endpoint alone, all four
CloneOverrides ==
    { NoOverrides,
      [NoOverrides EXCEPT !.request_signer = OtherSigner],
      [NoOverrides EXCEPT !.endpoint = OtherEndpoint],
      [serializer |-> OtherId, endpoint |-> OtherEndpoint,
       response_parser |-> OtherId, request_signer |-> OtherSigner] }

\* ClientMeta.__copy__ mutated: the new ClientMeta keeps the same emitter
ClientMetaCopyShared(ems, events) == [ems |-> ems, events |-> events]

\* ClientMeta.__copy__: the emitter heap after the copy and the reference
\* held by the new ClientMeta
ClientMetaCopy(ems, events) ==
    [ems |-> Append(ems, EmitterCopy(ems[events])), events |-> Len(ems) + 1]

\* clone_client mutated: the copy of the emitter is handed to the
\* constructor, which registers the clone's own signing handler on it
CloneClientRegisterAgain(c, ov) ==
    /\ c \in 1..Len(clients)
    /\ Len(clients) < MaxClients
    /\ LET self == clients[c]
           n == Len(clients) + 1
           serializer == IF ov.serializer = NoneId
                         THEN self.serializer ELSE ov.serializer
           endpoint == IF ov.endpoint = NoneEndpoint
                       THEN self.endpoint ELSE ov.endpoint
           response_parser == IF ov.response_parser = NoneId
                              THEN self.response_parser ELSE ov.response_parser
           request_signer == IF ov.request_signer = NoneSigner
                             THEN self.request_signer ELSE ov.request_signer
           meta == ClientMetaCopy(emitters, self.events)
           new_object == NewClient(self.service, serializer, endpoint,
                                   response_parser, meta.events, request_signer)
       IN  /\ emitters' = InitRegister(meta.ems, new_object.events, n)
           /\ clients' = Append(clients, new_object)
           /\ hist' = Append(hist, NewHist(c, emitters[self.events],
                                           Len(hist[c].ownRegs)))
    /\ UNCHANGED <<stats, loader, lastCreate, lastCall, iterVars, ebVars>>

\* clone_client(serializer, endpoint, response_parser, request_signer)
CloneClient(c, ov) ==
    /\ c \in 1..Len(clients)
    /\ Len(clients) < MaxClients
    /\ LET self == clients[c]
           n == Len(clients) + 1
           serializer == IF ov.serializer = NoneId
                         THEN self.serializer ELSE ov.serializer
           endpoint == IF ov.endpoint = NoneEndpoint
                       THEN self.endpoint ELSE ov.endpoint
           response_parser == IF ov.response_parser = NoneId
                              THEN self.response_parser ELSE ov.response_parser
           request_signer == IF ov.request_signer = NoneSigner
                             THEN self.request_signer ELSE ov.request_signer
           new_object == NewClient(self.service, serializer, endpoint,
                                   response_parser, NoEmitter, request_signer)
           ems1 == InitRegister(emitters, new_object.events, n)
           meta == ClientMetaCopy(ems1, self.events)
       IN  /\ emitters' = meta.ems
           /\ clients' = Append(clients, [new_object EXCEPT !.events = meta.events])
           /\ hist' = Append(hist, NewHist(c, emitters[self.events],
                                           Len(hist[c].ownRegs)))
    /\ UNCHANGED <<stats, loader, lastCreate, lastCall, iterVars, ebVars>>

(***************************************************************************)
(* Handlers registered by the user through client.meta.events              *)
(***************************************************************************)
UserPatterns == { <<"request-created">>, <<"before-call">> }

UserHandlerIds == 1..2

UserRegs(c) == SelectSeq(hist[c].ownRegs, LAMBDA r : r.handler.kind = "user")

RECURSIVE SumUserRegs(_)
SumUserRegs(k) == IF k = 0 THEN 0 ELSE Len(UserRegs(k)) + SumUserRegs(k - 1)

\* client.meta.events.register(pattern, handler)
RegisterHandler(c, pattern, n) ==
    /\ c \in 1..Len(clients)
    /\ SumUserRegs(Len(clients)) < MaxRegs
    /\ LET e == clients[c].events
           entry == [pattern |-> pattern, handler |-> UserHandler(n), uid |-> NoUid]
       IN  /\ emitters' = [emitters EXCEPT ![e] =
                              EmitterRegister(@, pattern, UserHandler(n), NoUid)]
           /\ hist' = NoteRegistration(hist, c, entry)
    /\ UNCHANGED <<clients, stats, loader, lastCreate, lastCall, iterVars, ebVars>>

\* the handlers fired when client c's emitter emits the event
Fired(c, event) ==
    LET regs == EmitterEmit(emitters[clients[c].events], event)
    IN  [i \in 1..Len(regs) |-> regs[i].handler]

\* BaseClient._sign_request bound to client b signs with b's signer: the
\* signers that sign a request when 'request-created' is emitted on the
\* emitter of client c
SignedBy(c) ==
    LET fired == SelectSeq(Fired(c, <<"request-created">>),
                           LAMBDA h : h.kind = "sign")
    IN  [i \in 1..Len(fired) |-> clients[fired[i].n].request_signer]

(***************************************************************************)
(* The synthesized API call                                                *)
(***************************************************************************)
MethodNames(s) == {xform_name(o) : o \in OperationNames(s)}

\* the operation name captured by the method named py (name_mapping[py])
ActualName(s, py) == CHOOSE o \in OperationNames(s) : xform_name(o) = py

ParamNames == {"Id", "Bogus"}

\* members of the operation's input shape
InputMembers(op) == {"Id"}

\* serializer.serialize_to_request with validation: a parameter that is not
\* a member of the input shape fails validation; the envelope it builds
\* carries no header and no signature yet
Serialize(kwargs, op) ==
    [ok |-> kwargs \subseteq InputMembers(op),
     request |-> [operation |-> op, params |-> kwargs, headers |-> {},
                  signed_by |-> <<>>]]

NoRequest ==
    [operation |-> "", params |-> {}, headers |-> {}, signed_by |-> <<>>]

StatusCodes == {200, 299, 300, 404}

Bodies == { [Code |-> "", Message |-> "", Data |-> "things"],
            [Code |-> "Throttling", Message |-> "Rate exceeded", Data |-> ""] }

NoBody == [Code |-> "", Message |-> "", Data |-> ""]

TransportErrors == {"ConnectionError", "ReadTimeout"}

\* what endpoint.make_request does: raise a transport error or return
\* (http, parsed_response)
TransportOutcomes ==
    [kind : {"response"}, status : StatusCodes, parsed : Bodies, error : {""}]
    \cup [kind : {"error"}, status : {0}, parsed : {NoBody},
          error : TransportErrors]

(***************************************************************************)
(* What handlers do when they are called.  A handler mutates the mutable   *)
(* values of the payload in place.                                         *)
(***************************************************************************)
\* at before-parameter-build: user handler 1 injects the parameter Id, any
\* other user handler deletes the parameter Bogus
HandleParams(h, params) ==
    IF h.kind # "user" THEN params
    ELSE IF h.n = 1 THEN params \cup {"Id"} ELSE params \ {"Bogus"}

\* BaseClient._sign_request of client b:
\* self._request_signer.sign(operation_name, request)
SignRequest(b, request) ==
    [request EXCEPT !.signed_by = Append(@, clients[b].request_signer)]

\* on a request envelope: a user handler adds a header of its own, a signing
\* handler signs, a retry handler leaves it alone
HandleRequest(h, request) ==
    CASE h.kind = "user" -> [request EXCEPT !.headers = @ \cup {h.n}]
      [] h.kind = "sign" -> SignRequest(h.n, request)
      [] OTHER -> request

RECURSIVE ApplyParams(_, _)
ApplyParams(fired, params) ==
    IF fired = <<>> THEN params
    ELSE ApplyParams(Tail(fired), HandleParams(Head(fired), params))

RECURSIVE ApplyRequest(_, _)
ApplyRequest(fired, request) ==
    IF fired = <<>> THEN request
    ELSE ApplyRequest(Tail(fired), HandleRequest(Head(fired), request))

Emit(c, event) == [step |-> "emit", event |-> event, fired |-> Fired(c, event)]
Step(name) == [step |-> name, event |-> <<>>, fired |-> <<>>]

Raise(error, response, operation_name) ==
    [kind |-> "raise", error |-> error, response |-> response,
     operation_name |-> operation_name]
Return(response) ==
    [kind |-> "return", error |-> "", response |-> response,
     operation_name |-> ""]

\* the status check mutated: 300 itself is let through
StatusCheckAbove(status, parsed_response, operation_name) ==
    IF status > 300
    THEN Raise("ClientError", parsed_response, operation_name)
    ELSE Return(parsed_response)

\* if http.status_code >= 300: raise ClientError(...) else: return ...
StatusCheck(status, parsed_response, operation_name) ==
    IF status >= 300
    THEN Raise("ClientError", parsed_response, operation_name)
    ELSE Return(parsed_response)

\* _api_call mutated: the status code is checked before after-call is emitted
ApiCallCheckFirst(c, py, kwargs, transport) ==
    LET s == clients[c].service
        prefix == EndpointPrefix(s)
        operation_name == ActualName(s, py)
        e1 == Emit(c, <<"before-parameter-build", prefix, operation_name>>)
        built == ApplyParams(e1.fired, kwargs)
        ser == Serialize(built, operation_name)
        e2 == Emit(c, <<"before-call", prefix, operation_name>>)
        request == ApplyRequest(e2.fired, ser.request)
        e3 == Emit(c, <<"after-call", prefix, operation_name>>)
    IN  IF ~ser.ok
        THEN [log |-> <<e1, Step("serialize")>>,
              outcome |-> Raise("ParamValidationError", NoBody, ""),
              built |-> built, request |-> NoRequest]
        ELSE IF transport.kind = "error"
        THEN [log |-> <<e1, Step("serialize"), e2, Step("make_request")>>,
              outcome |-> Raise(transport.error, NoBody, ""),
              built |-> built, request |-> request]
        ELSE IF transport.status >= 300
        THEN [log |-> <<e1, Step("serialize"), e2, Step("make_request"),
                        Step("status_check")>>,
              outcome |-> StatusCheck(transport.status, transport.parsed,
                                      operation_name),
              built |-> built, request |-> request]
        ELSE [log |-> <<e1, Step("serialize"), e2, Step("make_request"),
                        Step("status_check"), e3>>,
              outcome |-> StatusCheck(transport.status, transport.parsed,
                                      operation_name),
              built |-> built, request |-> request]

\* _api_call mutated: a validation failure is logged and the call goes on
ApiCallIgnoreValidation(c, py, kwargs, transport) ==
    LET s == clients[c].service
        prefix == EndpointPrefix(s)
        operation_name == ActualName(s, py)
        e1 == Emit(c, <<"before-parameter-build", prefix, operation_name>>)
        built == ApplyParams(e1.fired, kwargs)
        ser == Serialize(built, operation_name)
        e2 == Emit(c, <<"before-call", prefix, operation_name>>)
        request == ApplyRequest(e2.fired, ser.request)
        e3 == Emit(c, <<"after-call", prefix, operation_name>>)
    IN  IF transport.kind = "error"
        THEN [log |-> <<e1, Step("serialize"), e2, Step("make_request")>>,
              outcome |-> Raise(transport.error, NoBody, ""),
              built |-> built, request |-> request]
        ELSE [log |-> <<e1, Step("serialize"), e2, Step("make_request"), e3,
                        Step("status_check")>>,
              outcome |-> StatusCheck(transport.status, transport.parsed,
                                      operation_name),
              built |-> built, request |-> request]

\* _api_call mutated: an error of the transport is caught and the call goes
\* on with an empty response
ApiCallSwallowTransportError(c, py, kwargs, transport) ==
    LET s == clients[c].service
        prefix == EndpointPrefix(s)
        operation_name == ActualName(s, py)
        e1 == Emit(c, <<"before-parameter-build", prefix, operation_name>>)
        built == ApplyParams(e1.fired, kwargs)
        ser == Serialize(built, operation_name)
        e2 == Emit(c, <<"before-call", prefix, operation_name>>)
        request == ApplyRequest(e2.fired, ser.request)
        e3 == Emit(c, <<"after-call", prefix, operation_name>>)
    IN  IF ~ser.ok
        THEN [log |-> <<e1, Step("serialize")>>,
              outcome |-> Raise("ParamValidationError", NoBody, ""),
              built |-> built, request |-> NoRequest]
        ELSE IF transport.kind = "error"
        THEN [log |-> <<e1, Step("serialize"), e2, Step("make_request"), e3>>,
              outcome |-> Return(NoBody),
              built |-> built, request |-> request]
        ELSE [log |-> <<e1, Step("serialize"), e2, Step("make_request"), e3,
                        Step("status_check")>>,
              outcome |-> StatusCheck(transport.status, transport.parsed,
                                      operation_name),
              built |-> built, request |-> request]

\* _api_call mutated: the handlers are given copies of kwargs and of
\* request_dict, and the originals go on to the next stage
ApiCallPassCopies(c, py, kwargs, transport) ==
    LET s == clients[c].service
        prefix == EndpointPrefix(s)
        operation_name == ActualName(s, py)
        e1 == Emit(c, <<"before-parameter-build", prefix, operation_name>>)
        ser == Serialize(kwargs, operation_name)
        e2 == Emit(c, <<"before-call", prefix, operation_name>>)
        e3 == Emit(c, <<"after-call", prefix, operation_name>>)
    IN  IF ~ser.ok
        THEN [log |-> <<e1, Step("serialize")>>,
              outcome |-> Raise("ParamValidationError", NoBody, ""),
              built |-> kwargs, request |-> NoRequest]
        ELSE IF transport.kind = "error"
        THEN [log |-> <<e1, Step("serialize"), e2, Step("make_request")>>,
              outcome |-> Raise(transport.error, NoBody, ""),
              built |-> kwargs, request |-> ser.request]
        ELSE [log |-> <<e1, Step("serialize"), e2, Step("make_request"), e3,
                        Step("status_check")>>,
              outcome |-> StatusCheck(transport.status, transport.parsed,
                                      operation_name),
              built |-> kwargs, request |-> ser.request]

\* _api_call(**kwargs) of the method named py on client c, transport being
\* what endpoint.make_request ends with: the steps it takes, in order, how
\* it ends, the parameters it serialized (built) and the envelope it handed
\* to the transport (request)
ApiCall(c, py, kwargs, transport) ==
    LET s == clients[c].service
        prefix == EndpointPrefix(s)
        operation_name == ActualName(s, py)
        e1 == Emit(c, <<"before-parameter-build", prefix, operation_name>>)
        built == ApplyParams(e1.fired, kwargs)
        ser == Serialize(built, operation_name)
        e2 == Emit(c, <<"before-call", prefix, operation_name>>)
        request == ApplyRequest(e2.fired, ser.request)
        e3 == Emit(c, <<"after-call", prefix, operation_name>>)
    IN  IF ~ser.ok
        THEN [log |-> <<e1, Step("serialize")>>,
              outcome |-> Raise("ParamValidationError", NoBody, ""),
              built |-> built, request |-> NoRequest]
        ELSE IF transport.kind = "error"
        THEN [log |-> <<e1, Step("serialize"), e2, Step("make_request")>>,
              outcome |-> Raise(transport.error, NoBody, ""),
              built |-> built, request |-> request]
        ELSE [log |-> <<e1, Step("serialize"), e2, Step("make_request"), e3,
                        Step("status_check")>>,
              outcome |-> StatusCheck(transport.status, transport.parsed,
                                      operation_name),
              built |-> built, request |-> request]

(***************************************************************************)
(* The endpoint: it sends, and asks the needs-retry handlers whether to     *)
(* send again.  The client subscribes its signing handler to               *)
(* request-created; the endpoint is not part of the sources, and whether it *)
(* emits that event for a request is an input of the call.                 *)
(***************************************************************************)
RetryLimit == 2

RetryStatus == 503

\* the error classes of the retry rule set
Retryable(response) == response.kind = "error" \/ response.status = RetryStatus

\* the handlers fired when the endpoint of client c emits the event
EndpointFired(c, event) ==
    LET e == clients[c].endpoint.events
    IN  IF e = NoEmitter THEN <<>>
        ELSE LET regs == EmitterEmit(emitters[e], event)
             IN  [i \in 1..Len(regs) |-> regs[i].handler]

\* what an emission of 'request-created' on the emitter the endpoint was
\* made with does to the request: the handlers subscribed to it are called,
\* BaseClient._sign_request among them
RequestCreated(c, operation_name, request) ==
    LET prefix == EndpointPrefix(clients[c].service)
    IN  ApplyRequest(EndpointFired(c, <<"request-created", prefix, operation_name>>),
                     request)

\* the answer of the needs-retry handlers, fired being the handlers of
\* needs-retry, after the given number of sends: a retry handler asks for
\* another send of a retryable response while its retries are not used up
NeedsRetry(fired, attempts, response) ==
    \E i \in 1..Len(fired) :
        /\ fired[i].kind = "retry"
        /\ Retryable(response)
        /\ attempts <= RetryLimit

\* what the i-th send meets: the script, its last element repeated
Met(script, i) == IF i <= Len(script) THEN script[i] ELSE script[Len(script)]

RECURSIVE SendFrom(_, _, _)
SendFrom(fired, script, i) ==
    IF NeedsRetry(fired, i, Met(script, i))
    THEN SendFrom(fired, script, i + 1)
    ELSE [outcome |-> Met(script, i), sends |-> i]

\* endpoint.make_request(operation_model, request_dict): what it ends with
\* and how often it sent
MakeRequest(c, operation_name, script) ==
    LET prefix == EndpointPrefix(clients[c].service)
    IN  SendFrom(EndpointFired(c, <<"needs-retry", prefix, operation_name>>),
                 script, 1)

NoCall ==
    [kind |-> "none", client |-> 0, op |-> "", kwargs |-> {},
     transport |-> [kind |-> "error", status |-> 0, parsed |-> NoBody,
                    error |-> ""],
     log |-> <<>>, outcome |-> Return(NoBody),
     built |-> {}, request |-> NoRequest, created |-> FALSE,
     sent |-> NoRequest, script |-> <<>>, sends |-> 0]

\* client.<py>(**kwargs), script being what the successive sends of the
\* endpoint meet and emits holding what the endpoint may do about
\* request-created for the request it is handed: emit it (TRUE) or not
CallScripted(c, py, kwargs, script, emits) ==
    /\ c \in 1..Len(clients)
    /\ py \in MethodNames(clients[c].service)
    /\ \E operation_name \in {ActualName(clients[c].service, py)} :
       \E m \in {MakeRequest(c, operation_name, script)} :
       \E r \in {ApiCall(c, py, kwargs, m.outcome)} :
       \E invoked \in {\E i \in 1..Len(r.log) : r.log[i].step = "make_request"} :
       \E created \in IF invoked THEN emits ELSE {FALSE} :
           lastCall' = [kind |-> "api", client |-> c, op |-> py,
                        kwargs |-> kwargs, transport |-> m.outcome,
                        log |-> r.log, outcome |-> r.outcome,
                        built |-> r.built, request |-> r.request,
                        created |-> created,
                        sent |-> IF ~invoked THEN NoRequest
                                 ELSE IF created
                                 THEN RequestCreated(c, operation_name, r.request)
                                 ELSE r.request,
                        script |-> script,
                        sends |-> IF invoked THEN m.sends ELSE 0]
    /\ UNCHANGED <<emitters, clients, stats, hist, loader, lastCreate, iterVars, ebVars>>

\* client.<py>(**kwargs), transport being what the exchange ends with
CallOperation(c, py, kwargs, transport, emits) ==
    CallScripted(c, py, kwargs, <<transport>>, emits)

(***************************************************************************)
(* Pagination and waiter discovery                                         *)
(***************************************************************************)
\* one entry of a paginators file
PageEntry(op) ==
    [input_token |-> "NextToken", output_token |-> "NextToken", result_key |-> op]

WaiterNamesAll == {"ThingExists", "ThingGone"}

\* the lazy load mutated: an absent file is not cached
LoadPageConfigNoCacheOnMissing(st) ==
    LET s == st.client.service
    IN  IF st.client.cache.page_config.cached
        THEN st
        ELSE [client |-> [st.client EXCEPT !.cache.page_config =
                            [cached |-> loader.page[s].file,
                             value |-> IF loader.page[s].file
                                       THEN loader.page[s].pagination ELSE {}]],
              h |-> [st.h EXCEPT !.pageLoads = @ + 1]]

\* what a client is left with and what the loader was asked, after the
\* lazy load in can_paginate: st = [client |-> record, h |-> its history]
LoadPageConfig(st) ==
    LET s == st.client.service
    IN  IF st.client.cache.page_config.cached
        THEN st
        ELSE [client |-> [st.client EXCEPT !.cache.page_config =
                            [cached |-> TRUE,
                             value |-> IF loader.page[s].file
                                       THEN loader.page[s].pagination ELSE {}]],
              h |-> [st.h EXCEPT !.pageLoads = @ + 1]]

\* can_paginate mutated: the config is looked up by the method name
CanPaginateByMethodName(st, py) ==
    LET st1 == LoadPageConfig([st EXCEPT !.h.pageUses = Again(@)])
    IN  [st |-> st1, result |-> py \in st1.client.cache.page_config.value]

\* can_paginate(operation_name): the state it leaves and what it returns
CanPaginate(st, py) ==
    LET st1 == LoadPageConfig([st EXCEPT !.h.pageUses = Again(@)])
        actual_operation_name == ActualName(st.client.service, py)
    IN  [st |-> st1,
         result |-> actual_operation_name \in st1.client.cache.page_config.value]

Paginator(c, py, entry) ==
    [kind |-> "return", error |-> "", method |-> <<c, py>>, config |-> entry]
NotPageable(py) ==
    [kind |-> "raise", error |-> "OperationNotPageableError",
     method |-> <<0, py>>, config |-> PageEntry("")]

\* get_paginator(operation_name) on client c
GetPaginator(st, c, py) ==
    LET r == CanPaginate(st, py)
    IN  [st |-> r.st,
         outcome |-> IF ~r.result
                     THEN NotPageable(py)
                     ELSE Paginator(c, py,
                              PageEntry(ActualName(st.client.service, py)))]

\* _get_waiter_config
GetWaiterConfig(st) ==
    LET s == st.client.service
        st0 == [st EXCEPT !.h.waiterUses = Again(@)]
    IN  IF st0.client.cache.waiter_config.cached
        THEN st0
        ELSE [client |-> [st0.client EXCEPT !.cache.waiter_config =
                            [cached |-> TRUE,
                             value |-> IF loader.waiter[s].file
                                       THEN [empty |-> FALSE,
                                             waiters |-> loader.waiter[s].waiters]
                                       ELSE [empty |-> TRUE, waiters |-> {}]]],
              h |-> [st0.h EXCEPT !.waiterLoads = @ + 1]]

WaiterOf(c, name) == [kind |-> "return", error |-> "", name |-> name, client |-> c]
NoWaiter == [kind |-> "raise", error |-> "ValueError", name |-> "", client |-> 0]

\* get_waiter mutated: the name is looked up as given, without the
\* normalized mapping
GetWaiterByRawName(st, c, waiter_name) ==
    LET st1 == GetWaiterConfig(st)
        config == st1.client.cache.waiter_config.value
        matching == {n \in config.waiters : n = waiter_name}
    IN  [st |-> st1,
         outcome |-> IF config.empty \/ matching = {}
                     THEN NoWaiter
                     ELSE WaiterOf(c, CHOOSE n \in matching : TRUE)]

\* get_waiter mutated: for a recognized name the mapping gives the name of
\* another waiter of the config, when there is one
GetWaiterAnyOfConfig(st, c, waiter_name) ==
    LET st1 == GetWaiterConfig(st)
        config == st1.client.cache.waiter_config.value
        matching == {n \in config.waiters : xform_name(n) = waiter_name}
    IN  [st |-> st1,
         outcome |-> IF config.empty \/ matching = {}
                     THEN NoWaiter
                     ELSE WaiterOf(c, CHOOSE n \in config.waiters :
                                         n \notin matching
                                         \/ config.waiters = matching)]

\* get_waiter(waiter_name) on client c
GetWaiter(st, c, waiter_name) ==
    LET st1 == GetWaiterConfig(st)
        config == st1.client.cache.waiter_config.value
        matching == {n \in config.waiters : xform_name(n) = waiter_name}
    IN  [st |-> st1,
         outcome |-> IF config.empty \/ matching = {}
                     THEN NoWaiter
                     ELSE WaiterOf(c, CHOOSE n \in matching : TRUE)]

\* the waiter_names cached property (the names, without their order)
WaiterNames(st) ==
    IF st.client.waiter_names.cached
    THEN [st |-> st, result |-> st.client.waiter_names.value]
    ELSE LET st1 == GetWaiterConfig(st)
             config == st1.client.cache.waiter_config.value
             names == IF config.empty THEN {}
                      ELSE {xform_name(n) : n \in config.waiters}
         IN  [st |-> [st1 EXCEPT !.client.waiter_names =
                                     [cached |-> TRUE, value |-> names]],
              result |-> names]

StateOf(c) == [client |-> clients[c], h |-> hist[c]]

Discovery(c, kind, name, st, outcome) ==
    /\ clients' = [clients EXCEPT ![c] = st.client]
    /\ hist' = [hist EXCEPT ![c] = st.h]
    /\ lastCall' = [NoCall EXCEPT !.kind = kind, !.client = c, !.op = name,
                                  !.outcome = outcome]
    /\ UNCHANGED <<emitters, stats, loader, lastCreate, iterVars, ebVars>>

\* client.can_paginate(py)
CallCanPaginate(c, py) ==
    /\ c \in 1..Len(clients)
    /\ py \in MethodNames(clients[c].service)
    /\ LET r == CanPaginate(StateOf(c), py)
       IN  Discovery(c, "can_paginate", py, r.st, r.result)

\* client.get_paginator(py)
CallGetPaginator(c, py) ==
    /\ c \in 1..Len(clients)
    /\ py \in MethodNames(clients[c].service)
    /\ LET r == GetPaginator(StateOf(c), c, py)
       IN  Discovery(c, "get_paginator", py, r.st, r.outcome)

WaiterArgs == {xform_name(n) : n \in WaiterNamesAll} \cup {"no_such_waiter"}

\* client.get_waiter(waiter_name)
CallGetWaiter(c, waiter_name) ==
    /\ c \in 1..Len(clients)
    /\ LET r == GetWaiter(StateOf(c), c, waiter_name)
       IN  Discovery(c, "get_waiter", waiter_name, r.st, r.outcome)

\* client.waiter_names
CallWaiterNames(c) ==
    /\ c \in 1..Len(clients)
    /\ LET r == WaiterNames(StateOf(c))
       IN  Discovery(c, "waiter_names", "", r.st, r.result)

(***************************************************************************)
(* Paginators and waiters in use                                           *)
(***************************************************************************)
MaxPages == 3

WaiterAttempts == 2

\* the names under which the caller keeps the paginators it obtains
Pagers == {"p", "q"}

Tokens == {"A", "B"}
NoToken == ""

NoHandle == [ref |-> 0, base |-> {}, sent |-> <<>>, got |-> <<>>]

\* get_paginator mutated: the paginator made for a method is kept and
\* returned again for the same method
NewPaginatorCached(objs, method, config) ==
    IF \E i \in 1..Len(objs) : objs[i].method = method
    THEN [objs |-> objs,
          ref |-> CHOOSE i \in 1..Len(objs) : objs[i].method = method]
    ELSE [objs |-> Append(objs, [method |-> method, config |-> config,
                                 token |-> NoToken, done |-> FALSE]),
          ref |-> Len(objs) + 1]

\* return Paginator(getattr(self, operation_name), page_config[...]): a new
\* paginator object on the heap objs, with no token yet
NewPaginator(objs, method, config) ==
    [objs |-> Append(objs, [method |-> method, config |-> config,
                            token |-> NoToken, done |-> FALSE]),
     ref |-> Len(objs) + 1]

\* the request a paginator sends for its next page: the caller's base
\* parameters with the current token, if any, under the input token's name
PageRequest(obj, base) == [params |-> base, token |-> obj.token]

\* the paginator after a page whose output carries token (NoToken for none)
PageReceived(obj, token) ==
    [obj EXCEPT !.token = token, !.done = (token = NoToken)]

\* name = client.get_paginator(py), to be iterated with the base parameters
ObtainPaginator(name, c, py, base) ==
    /\ handles[name].ref = 0
    /\ c \in 1..Len(clients)
    /\ py \in MethodNames(clients[c].service)
    /\ \E r \in {GetPaginator(StateOf(c), c, py)} :
          /\ clients' = [clients EXCEPT ![c] = r.st.client]
          /\ hist' = [hist EXCEPT ![c] = r.st.h]
          /\ lastCall' = [NoCall EXCEPT !.kind = "get_paginator", !.client = c,
                                        !.op = py, !.outcome = r.outcome]
          /\ IF r.outcome.kind = "return"
             THEN \E a \in {NewPaginator(pagers, r.outcome.method,
                                         r.outcome.config)} :
                     /\ pagers' = a.objs
                     /\ handles' = [handles EXCEPT ![name] =
                                       [ref |-> a.ref, base |-> base,
                                        sent |-> <<>>, got |-> <<>>]]
             ELSE UNCHANGED <<pagers, handles>>
    /\ UNCHANGED <<emitters, stats, loader, lastCreate, lastWait, ebVars>>

\* one more page is asked of the paginator kept under name, and the page's
\* output carries token
NextPage(name, token) ==
    /\ handles[name].ref # 0
    /\ ~pagers[handles[name].ref].done
    /\ Len(handles[name].sent) < MaxPages
    /\ LET ref == handles[name].ref
       IN  /\ handles' = [handles EXCEPT
                            ![name].sent = Append(@, PageRequest(pagers[ref],
                                                            handles[name].base)),
                            ![name].got = Append(@, token)]
           /\ pagers' = [pagers EXCEPT ![ref] = PageReceived(@, token)]
    /\ UNCHANGED <<clientVars, lastWait, ebVars>>

\* what one poll of a waiter's operation matches: no rule, a success rule,
\* a failure rule
Polls == {"none", "success", "failure"}

\* maxAttempts of the waiter's entry in the waiters file
MaxAttemptsOf(name) ==
    IF name = "ThingExists" THEN WaiterAttempts ELSE WaiterAttempts - 1

PollScripts == [1..(WaiterAttempts + 1) -> Polls]

\* Waiter.wait from its i-th call on, max_attempts being its budget
RECURSIVE WaitFrom(_, _, _)
WaitFrom(max_attempts, script, i) ==
    IF script[i] = "success"
    THEN [calls |-> i, result |-> "success", reason |-> ""]
    ELSE IF script[i] = "failure"
    THEN [calls |-> i, result |-> "WaiterError",
          reason |-> "Waiter encountered a terminal failure state"]
    ELSE IF i >= max_attempts
    THEN [calls |-> i, result |-> "WaiterError",
          reason |-> "Max attempts exceeded"]
    ELSE WaitFrom(max_attempts, script, i + 1)

NoWait ==
    [kind |-> "none", client |-> 0, arg |-> "", waiter |-> "", script |-> <<>>,
     calls |-> 0, result |-> "", reason |-> ""]

\* client.get_waiter(waiter_name).wait(), script being what the successive
\* polls match
CallWait(c, waiter_name, script) ==
    /\ c \in 1..Len(clients)
    /\ \E r \in {GetWaiter(StateOf(c), c, waiter_name)} :
          /\ clients' = [clients EXCEPT ![c] = r.st.client]
          /\ hist' = [hist EXCEPT ![c] = r.st.h]
          /\ lastCall' = [NoCall EXCEPT !.kind = "get_waiter", !.client = c,
                                        !.op = waiter_name, !.outcome = r.outcome]
          /\ IF r.outcome.kind = "return"
             THEN \E w \in {WaitFrom(MaxAttemptsOf(r.outcome.name), script, 1)} :
                     lastWait' = [kind |-> "wait", client |-> c,
                                  arg |-> waiter_name, waiter |-> r.outcome.name,
                                  script |-> script, calls |-> w.calls,
                                  result |-> w.result, reason |-> w.reason]
             ELSE lastWait' = [NoWait EXCEPT !.kind = "no_waiter", !.client = c,
                                             !.arg = waiter_name]
    /\ UNCHANGED <<emitters, stats, loader, lastCreate, pagers, handles, ebVars>>

(***************************************************************************)
(* Elastic Beanstalk operations: commonops.wait_for_success_events.         *)
(* An event is [message, request]: the key of the response string that its *)
(* message matches ("other" for none) and the request that produced it.    *)
(* A batch of events is a sequence, newest first, as get_new_events gives  *)
(* it.  Time is counted in seconds since the start of the wait and passes  *)
(* in time.sleep only.                                                     *)
(***************************************************************************)
MaxSleeps == 4

MaxBatch == 2

\* timeout_in_minutes = 10 when None is given
DefaultTimeout == 10

\* the sleep_time argument, in seconds
sleep_time == 300

NoTimeout == 0 - 1

\* the values of the timeout_in_minutes argument
Timeouts == {NoTimeout, 0, 5, 10}

SuccessMessages ==
    {"event.greenmessage", "event.launchsuccess", "logs.pulled",
     "env.terminated", "env.updatesuccess", "env.configsuccess",
     "app.deletesuccess", "logs.successtail", "logs.successbundle",
     "swap.success"}

FailureMessages ==
    {"event.redmessage", "event.launchbad", "event.updatebad",
     "event.failedlaunch", "event.faileddeploy", "logs.fail"}

\* _is_success_string(message): "True", "False" or the error it raises
IsSuccessString(message) ==
    IF message \in SuccessMessages THEN "True"
    ELSE IF message \in FailureMessages THEN "ServiceError"
    ELSE IF message = "create.ecsdockerrun1" THEN "NotSupportedError"
    ELSE "False"

NoEvent == [message |-> "", request |-> ""]

\* events of the request waited for, and events of the same application and
\* environment whatever the request
OwnEvents ==
    [message : {"other", "event.greenmessage", "event.redmessage",
                "create.ecsdockerrun1"},
     request : {"mine"}]

EnvironmentEvents ==
    OwnEvents \cup [message : {"event.greenmessage", "event.redmessage"},
                    request : {"other"}]

BatchesOf(events) == UNION {[1..n -> events] : n \in 0..MaxBatch}

\* before the call
IdleWait ==
    [pc |-> "idle", timediff |-> 0, stream_events |-> FALSE, slept |-> 0,
     events |-> <<>>, last_time |-> NoEvent, streamed |-> <<>>,
     examined |-> <<>>, streamer |-> "none", end_streams |-> 0,
     late |-> FALSE, fetches |-> 0, polled |-> "", result |-> "", cause |-> NoEvent]

\* datetime.now() - start, in seconds
Elapsed == wfe.slept * sleep_time

\* the function leaves through its finally clause
FinishOpenOnTimeout(w, result, cause) ==
    [w EXCEPT !.pc = "done", !.result = result, !.cause = cause,
              !.streamer = IF result = "TimeoutError" THEN @ ELSE "ended",
              !.end_streams = IF result = "TimeoutError" THEN @ ELSE @ + 1]

Finish(w, result, cause) ==
    [w EXCEPT !.pc = "done", !.result = result, !.cause = cause,
              !.streamer = "ended", !.end_streams = @ + 1]

\* wait_for_success_events(request_id, timeout_in_minutes, sleep_time,
\* stream_events) up to the first loop
WaitStart(timeout_in_minutes, stream_events) ==
    /\ wfe.pc = "idle"
    /\ wfe' = IF timeout_in_minutes = 0
              THEN [wfe EXCEPT !.pc = "done", !.result = "return"]
              ELSE [wfe EXCEPT
                      !.pc = "first",
                      !.timediff = 60 * (IF timeout_in_minutes = NoTimeout
                                         THEN DefaultTimeout
                                         ELSE timeout_in_minutes),
                      !.stream_events = stream_events,
                      !.streamer = "open"]
    /\ UNCHANGED <<clientVars, iterVars, fs, lastFile, cav>>

\* one iteration of 'while not events', get_new_events(None, None,
\* request_id) returning the batch
FirstPoll(batch) ==
    /\ wfe.pc = "first"
    /\ batch = <<>> => wfe.slept < MaxSleeps
    /\ LET w == [wfe EXCEPT !.events = batch, !.fetches = @ + 1,
                            !.polled = "first",
                            !.late = @ \/ (Elapsed >= wfe.timediff)]
           event == batch[Len(batch)]
           seen == [w EXCEPT !.streamed = IF wfe.stream_events
                                          THEN <<event>> ELSE <<>>,
                             !.examined = <<event>>]
       IN  wfe' = IF batch = <<>>
                  THEN [w EXCEPT !.slept = @ + 1]
                  ELSE IF IsSuccessString(event.message) = "True"
                  THEN Finish(seen, "return", event)
                  ELSE IF IsSuccessString(event.message) # "False"
                  THEN Finish(seen, IsSuccessString(event.message), event)
                  ELSE [seen EXCEPT !.last_time = event, !.pc = "second"]
    /\ UNCHANGED <<clientVars, iterVars, fs, lastFile, cav>>

RECURSIVE ExamineNewestFirst(_, _)
ExamineNewestFirst(w, k) ==
    IF k = 0 THEN w
    ELSE LET event == w.events[Len(w.events) + 1 - k]
             seen == [w EXCEPT
                        !.streamed = IF w.stream_events
                                     THEN Append(@, event) ELSE @,
                        !.last_time = IF w.stream_events THEN event ELSE @,
                        !.examined = Append(@, event)]
         IN  IF IsSuccessString(event.message) = "True"
             THEN Finish(seen, "return", event)
             ELSE IF IsSuccessString(event.message) # "False"
             THEN Finish(seen, IsSuccessString(event.message), event)
             ELSE ExamineNewestFirst(seen, k - 1)

\* 'for event in reversed(events)': the events from the k-th on, oldest
\* first being the last of the batch
RECURSIVE Examine(_, _)
Examine(w, k) ==
    IF k = 0 THEN w
    ELSE LET event == w.events[k]
             seen == [w EXCEPT
                        !.streamed = IF w.stream_events
                                     THEN Append(@, event) ELSE @,
                        !.last_time = IF w.stream_events THEN event ELSE @,
                        !.examined = Append(@, event)]
         IN  IF IsSuccessString(event.message) = "True"
             THEN Finish(seen, "return", event)
             ELSE IF IsSuccessString(event.message) # "False"
             THEN Finish(seen, IsSuccessString(event.message), event)
             ELSE Examine(seen, k - 1)

\* one iteration of 'while (datetime.now() - start) < timediff',
\* get_new_events(app_name, env_name, None, last_time) returning the batch
SecondPoll(batch) ==
    /\ wfe.pc = "second"
    /\ Elapsed < wfe.timediff
    /\ wfe' = Examine([wfe EXCEPT !.slept = @ + 1, !.events = batch,
                                  !.fetches = @ + 1, !.polled = "second",
                                  !.streamed = <<>>, !.examined = <<>>],
                      Len(batch))
    /\ UNCHANGED <<clientVars, iterVars, fs, lastFile, cav>>

\* the second loop ends: raise TimeoutError
TimeOut ==
    /\ wfe.pc = "second"
    /\ Elapsed >= wfe.timediff
    /\ wfe' = Finish(wfe, "TimeoutError", NoEvent)
    /\ UNCHANGED <<clientVars, iterVars, fs, lastFile, cav>>

\* get_new_events raises
PollFails ==
    /\ \/ wfe.pc = "first"
       \/ wfe.pc = "second" /\ Elapsed < wfe.timediff
    /\ wfe' = Finish([wfe EXCEPT !.slept = IF wfe.pc = "second" THEN @ + 1 ELSE @,
                                 !.fetches = @ + 1,
                                 !.late = @ \/ (wfe.pc = "first"
                                                /\ Elapsed >= wfe.timediff)],
                     "FetchError", NoEvent)
    /\ UNCHANGED <<clientVars, iterVars, fs, lastFile, cav>>

(***************************************************************************)
(* Elastic Beanstalk operations: the project's config file                 *)
(* (core/fileoperations.py).  The file system is a chain of directories,   *)
(* the first being the root, which is its own parent.  fs.eb tells which   *)
(* directories hold a .elasticbeanstalk directory and fs.local the         *)
(* config.yml in it: whether it exists and the mapping it holds, from      *)
(* sections to mappings from keys to values.  Only mappings of strings to  *)
(* strings are written, which safe_dump and load give back as they were.   *)
(* fs.global is the config.global.yml beside it, which the user provides,  *)
(* and fs.app_versions tells where the app_versions folder exists.         *)
(***************************************************************************)
MaxFileOps == 3

Directories == <<"/", "/work", "/work/app">>

Dirs == 1..Len(Directories)

\* os.path.pardir
ParentOf(d) == IF d = 1 THEN 1 ELSE d - 1

EmptyDict == [k \in {} |-> None]

NoFile == [exists |-> FALSE, config |-> EmptyDict]

\* no directory is a project
NoProject ==
    [cwd |-> Len(Directories),
     eb |-> [d \in Dirs |-> FALSE],
     local |-> [d \in Dirs |-> NoFile],
     global |-> [d \in Dirs |-> NoFile],
     app_versions |-> [d \in Dirs |-> FALSE]]

NoFileOp ==
    [name |-> "", args |-> <<>>, before |-> NoProject, raised |-> "",
     count |-> 0]

\* the keys that create_config_file writes
CreatedKeys == {"application_name", "default_region", "default_platform"}

\* the settings and values that callers write
Settings ==
    {<<"global", "application_name">>, <<"global", "profile">>,
     <<"branch-defaults", "master">>}

Values == {"old", "new"}

\* _get_yaml_dict(local_config_file) in directory d, and 'if not config'
GetYamlDict(f, d) ==
    IF f.local[d].exists THEN f.local[d].config ELSE EmptyDict

\* _traverse_to_project_root(): the file system after the os.chdir calls and
\* the error raised, if any
RECURSIVE TraverseToProjectRoot(_)
TraverseToProjectRoot(f) ==
    IF f.eb[f.cwd] THEN [fs |-> f, raised |-> ""]
    ELSE IF ParentOf(f.cwd) = f.cwd
    THEN [fs |-> f, raised |-> "NotInitializedError"]
    ELSE TraverseToProjectRoot([f EXCEPT !.cwd = ParentOf(f.cwd)])

\* config.setdefault(section, {})[key_name] = value
SetDefaultAssign(config, section, key_name, value) ==
    LET old == IF section \in DOMAIN config THEN config[section]
               ELSE EmptyDict
        new == [k \in DOMAIN old \cup {key_name} |->
                    IF k = key_name THEN value ELSE old[k]]
    IN  [s \in DOMAIN config \cup {section} |->
            IF s = section THEN new ELSE config[s]]

\* write_config_setting(section, key_name, value)
WriteConfigSetting(f, section, key_name, value) ==
    LET t == TraverseToProjectRoot(f)
        root == t.fs.cwd
        config == SetDefaultAssign(GetYamlDict(t.fs, root), section,
                                   key_name, value)
    IN  IF t.raised # ""
        THEN [fs |-> [t.fs EXCEPT !.cwd = f.cwd], raised |-> t.raised]
        ELSE [fs |-> [t.fs EXCEPT
                        !.local[root] = [exists |-> TRUE, config |-> config],
                        !.cwd = f.cwd],
              raised |-> ""]

\* create_config_file(app_name, region, solution_stack)
CreateConfigFile(f, app_name, region, solution_stack) ==
    LET made == [f EXCEPT !.eb[f.cwd] = TRUE]
        w1 == WriteConfigSetting(made, "global", "application_name", app_name)
        w2 == WriteConfigSetting(w1.fs, "global", "default_region", region)
    IN  WriteConfigSetting(w2.fs, "global", "default_platform",
                           solution_stack)

\* the caller changes the working directory
ChangeDir(d) ==
    /\ d # fs.cwd
    /\ fs' = [fs EXCEPT !.cwd = d]
    /\ lastFile' = [NoFileOp EXCEPT !.count = lastFile.count]
    /\ UNCHANGED <<clientVars, iterVars, wfe, cav>>

WriteSetting(section, key_name, value) ==
    /\ lastFile.count < MaxFileOps
    /\ \E w \in {WriteConfigSetting(fs, section, key_name, value)} :
          /\ fs' = w.fs
          /\ lastFile' = [name |-> "write_config_setting",
                          args |-> <<section, key_name, value>>,
                          before |-> fs, raised |-> w.raised,
                          count |-> lastFile.count + 1]
    /\ UNCHANGED <<clientVars, iterVars, wfe, cav>>

CreateConfig(app_name, region, solution_stack) ==
    /\ lastFile.count < MaxFileOps
    /\ \E w \in {CreateConfigFile(fs, app_name, region, solution_stack)} :
          /\ fs' = w.fs
          /\ lastFile' = [name |-> "create_config_file",
                          args |-> <<app_name, region, solution_stack>>,
                          before |-> fs, raised |-> w.raised,
                          count |-> lastFile.count + 1]
    /\ UNCHANGED <<clientVars, iterVars, wfe, cav>>

\* touch_config_folder(): the directory is made, no file is written
TouchConfigFolder ==
    /\ lastFile.count < MaxFileOps
    /\ fs' = [fs EXCEPT !.eb[fs.cwd] = TRUE]
    /\ lastFile' = [name |-> "touch_config_folder", args |-> <<>>,
                    before |-> fs, raised |-> "",
                    count |-> lastFile.count + 1]
    /\ UNCHANGED <<clientVars, iterVars, wfe, cav>>

\* clean_up(): the .elasticbeanstalk directory of the project root is
\* removed with all it holds
CleanUp ==
    /\ lastFile.count < MaxFileOps
    /\ \E t \in {TraverseToProjectRoot(fs)} :
          /\ fs' = IF t.raised # "" THEN [t.fs EXCEPT !.cwd = fs.cwd]
                    ELSE [fs EXCEPT !.eb[t.fs.cwd] = FALSE,
                                    !.local[t.fs.cwd] = NoFile,
                                    !.global[t.fs.cwd] = NoFile,
                                    !.app_versions[t.fs.cwd] = FALSE]
          /\ lastFile' = [name |-> "clean_up", args |-> <<>>,
                          before |-> fs, raised |-> t.raised,
                          count |-> lastFile.count + 1]
    /\ UNCHANGED <<clientVars, iterVars, wfe, cav>>


(***************************************************************************)
(* Elastic Beanstalk operations: the current branch's settings             *)
(* (commonops.write_setting_to_current_branch).  The name of the current   *)
(* branch is what source control answers when it is asked.                 *)
(***************************************************************************)
Branches == {"master", "dev"}

\* {keyname: value}
OneSetting(keyname, value) == [k \in {keyname} |-> value]

\* write_setting_to_current_branch(keyname, value), branch_name being the
\* current branch
WriteSettingToCurrentBranch(f, branch_name, keyname, value) ==
    WriteConfigSetting(f, "branch-defaults", branch_name,
                       OneSetting(keyname, value))

\* set_environment_for_current_branch(value)
SetEnvironmentForCurrentBranch(f, branch_name, value) ==
    WriteSettingToCurrentBranch(f, branch_name, "environment", value)

(***************************************************************************)
(* Elastic Beanstalk operations: commonops._create_application_version.    *)
(* The text of an error message is [head, body, tail], its beginning, its  *)
(* middle (a sequence of pieces) and its end.                              *)
(***************************************************************************)
MaxVersionCalls == 3

NoMessage == [head |-> "", body |-> <<>>, tail |-> ""]

\* 'Application Version <label> already exists.'
VersionExists(version_label) ==
    [head |-> "Application Version ", body |-> <<version_label>>,
     tail |-> " already exists."]

\* responses['app.notexists'].replace('{app-name}', '\'' + app_name + '\'')
AppNotExists(app_name) ==
    [head |-> "No Application named ", body |-> <<"'", app_name, "'">>,
     tail |-> " found."]

\* the messages of the InvalidParameterValueError that
\* create_application_version raises
VersionMessages ==
    {VersionExists("v1"), AppNotExists("app"), AppNotExists("other"),
     [head |-> "Application Version ", body |-> <<"v1">>,
      tail |-> " is invalid."],
     [head |-> "Application ", body |-> <<"app">>,
      tail |-> " already exists."]}

\* what elasticbeanstalk.create_application_version does
VersionOutcomes ==
    [kind : {"ok", "ServiceError"}, message : {NoMessage}]
    \cup [kind : {"InvalidParameterValueError"}, message : VersionMessages]

\* what the service answers to create_application: it succeeds, raises
\* AlreadyExistsError, or raises another error
AppOutcomes == {"created", "AlreadyExistsError", "ServiceError"}

\* the environments an application can have, in the order the service
\* lists them
Environments == <<"env-1", "env-2">>

\* what the service answers to get_app_environments: the first n of the
\* environments, or an error
EnvironmentsOutcomes ==
    {[kind |-> "ok", envs |-> SubSeq(Environments, 1, n)] :
        n \in 0..Len(Environments)}
    \cup {[kind |-> "ServiceError", envs |-> <<>>]}

\* what it answers to get_specific_configuration_for_env: a key name, none,
\* or an error
KeynameOutcomes == {"key", None, "ServiceError"}

\* the except clause of _create_application_version: "return", "create_app"
\* or "raise"
HandleVersionErrorByPrefix(message, app_name) ==
    IF message.head = "Application Version " THEN "return"
    ELSE IF message = AppNotExists(app_name) THEN "create_app"
    ELSE "raise"

HandleVersionError(message, app_name) ==
    IF message.head = "Application Version "
       /\ message.tail = " already exists."
    THEN "return"
    ELSE IF message = AppNotExists(app_name) THEN "create_app"
    ELSE "raise"

NoOutcome == [kind |-> "", message |-> NoMessage]

\* before the call
IdleVersion ==
    [pc |-> "idle", app_name |-> "", version_label |-> "",
     warning |-> FALSE, version_calls |-> 0, app_calls |-> 0,
     warned |-> FALSE, last |-> NoOutcome, result |-> "", value |-> "",
     error |-> NoOutcome]

\* _create_application_version(app_name, version_label, description, bucket,
\* key, warning) enters its loop
StartVersion(app_name, version_label, warning) ==
    /\ cav.pc = "idle"
    /\ cav' = [cav EXCEPT !.pc = "version", !.app_name = app_name,
                          !.version_label = version_label,
                          !.warning = warning]
    /\ UNCHANGED <<clientVars, iterVars, wfe, fs, lastFile>>

\* one iteration of 'while True' up to create_app:
\* elasticbeanstalk.create_application_version answers with the outcome
VersionAnswer(outcome) ==
    /\ cav.pc = "version"
    /\ cav.version_calls < MaxVersionCalls
    /\ LET c == [cav EXCEPT !.version_calls = @ + 1, !.last = outcome]
           handled == HandleVersionError(outcome.message, cav.app_name)
       IN  cav' = IF outcome.kind = "ok"
                  THEN [c EXCEPT !.pc = "done", !.result = "return",
                                 !.value = cav.version_label]
                  ELSE IF outcome.kind # "InvalidParameterValueError"
                          \/ handled = "raise"
                  THEN [c EXCEPT !.pc = "done", !.result = outcome.kind,
                                 !.error = outcome]
                  ELSE IF handled = "return"
                  THEN [c EXCEPT !.pc = "done", !.result = "return",
                                 !.value = cav.version_label,
                                 !.warned = cav.warning]
                  ELSE [c EXCEPT !.pc = "app"]
    /\ UNCHANGED <<clientVars, iterVars, wfe, fs, lastFile>>

\* the call ends by raising what create_app raised
RaiseFromApp(kind) == cav' = [cav EXCEPT !.pc = "done", !.result = kind]

\* set_environment_for_current_branch(value) within create_app; when it
\* returns, create_app goes on to pc
SetEnvironmentInApp(branch_name, value, pc) ==
    \E w \in {SetEnvironmentForCurrentBranch(fs, branch_name, value)} :
        /\ fs' = w.fs
        /\ lastFile' = [name |-> "set_environment_for_current_branch",
                        args |-> <<branch_name, value>>,
                        before |-> fs, raised |-> w.raised,
                        count |-> lastFile.count]
        /\ IF w.raised # "" THEN RaiseFromApp(w.raised)
           ELSE cav' = [cav EXCEPT !.pc = pc]

\* create_app(app_name) within the iteration, from the answer of
\* elasticbeanstalk.create_application on; branch_name is the current
\* branch.  When the application exists already, pull_down_app_info asks
\* for its environments.
AppAnswer(outcome, branch_name) ==
    /\ cav.pc = "app"
    /\ \E counted \in {[cav EXCEPT !.app_calls = @ + 1]} :
          IF outcome = "created"
          THEN \E w \in {SetEnvironmentForCurrentBranch(fs, branch_name,
                                                         None)} :
                  /\ fs' = w.fs
                  /\ lastFile' =
                        [name |-> "set_environment_for_current_branch",
                         args |-> <<branch_name, None>>,
                         before |-> fs, raised |-> w.raised,
                         count |-> lastFile.count]
                  /\ cav' = IF w.raised # ""
                            THEN [counted EXCEPT !.pc = "done",
                                                 !.result = w.raised]
                            ELSE [counted EXCEPT !.pc = "version"]
          ELSE /\ cav' = IF outcome = "AlreadyExistsError"
                         THEN [counted EXCEPT !.pc = "envs"]
                         ELSE [counted EXCEPT !.pc = "done",
                                              !.result = outcome]
               /\ UNCHANGED <<fs, lastFile>>
    /\ UNCHANGED <<clientVars, iterVars, wfe>>

\* pull_down_app_info from the answer of get_app_environments on.  With no
\* environment the branch's environment is set to None and create_app
\* returns.  With one it is the default; with several (create_app is called
\* without default_env) the user is prompted and picks the chosen-th.  The
\* environment's name is written and the service is asked for its key name.
EnvironmentsAnswer(outcome, chosen, branch_name) ==
    /\ cav.pc = "envs"
    /\ chosen \in 1..Len(Environments)
    /\ IF Len(outcome.envs) > 1 THEN chosen <= Len(outcome.envs)
       ELSE chosen = 1
    /\ IF outcome.kind # "ok"
       THEN RaiseFromApp(outcome.kind) /\ UNCHANGED <<fs, lastFile>>
       ELSE IF Len(outcome.envs) = 0
       THEN SetEnvironmentInApp(branch_name, None, "version")
       ELSE SetEnvironmentInApp(branch_name, outcome.envs[chosen], "keyname")
    /\ UNCHANGED <<clientVars, iterVars, wfe>>

\* pull_down_app_info from the answer of
\* get_specific_configuration_for_env on: create_app returns, and the loop
\* of _create_application_version goes round again
KeynameAnswer(outcome) ==
    /\ cav.pc = "keyname"
    /\ IF outcome = "ServiceError" THEN RaiseFromApp(outcome)
       ELSE cav' = [cav EXCEPT !.pc = "version"]
    /\ UNCHANGED <<clientVars, iterVars, wfe, fs, lastFile>>

(***************************************************************************)
(* Elastic Beanstalk operations: reading the config files                  *)
(* (fileoperations.get_config_setting) and the other operations that go to *)
(* the project root.                                                       *)
(***************************************************************************)
\* the default argument when none is given
Marker == "_marker"

Defaults == {Marker, "dflt", None}

\* _get_yaml_dict(global_config_file) in directory d
GetGlobalYamlDict(f, d) ==
    IF f.global[d].exists THEN f.global[d].config ELSE EmptyDict

\* config[section][key_name], None standing for KeyError
Lookup(config, section, key_name) ==
    IF section \in DOMAIN config /\ key_name \in DOMAIN config[section]
    THEN [found |-> TRUE, value |-> config[section][key_name]]
    ELSE [found |-> FALSE, value |-> None]

\* the mutant reads the local file first and lets the global one override
GetConfigSettingGlobalLast(f, section, key_name, default) ==
    LET t == TraverseToProjectRoot(f)
        back == [t.fs EXCEPT !.cwd = f.cwd]
        global == Lookup(GetGlobalYamlDict(t.fs, t.fs.cwd), section, key_name)
        local == Lookup(GetYamlDict(t.fs, t.fs.cwd), section, key_name)
        value == IF global.found THEN global.value ELSE local.value
    IN  IF t.raised # ""
        THEN IF default = Marker
             THEN [fs |-> back, raised |-> t.raised, value |-> None]
             ELSE [fs |-> back, raised |-> "", value |-> default]
        ELSE [fs |-> back, raised |-> "",
              value |-> IF value = None /\ default # Marker THEN default
                        ELSE value]

\* get_config_setting(section, key_name, default)
GetConfigSetting(f, section, key_name, default) ==
    LET t == TraverseToProjectRoot(f)
        back == [t.fs EXCEPT !.cwd = f.cwd]
        global == Lookup(GetGlobalYamlDict(t.fs, t.fs.cwd), section, key_name)
        config_local == GetYamlDict(t.fs, t.fs.cwd)
        local == Lookup(config_local, section, key_name)
        value == IF config_local # EmptyDict /\ local.found
                 THEN local.value ELSE global.value
    IN  IF t.raised # ""
        THEN IF default = Marker
             THEN [fs |-> back, raised |-> t.raised, value |-> None]
             ELSE [fs |-> back, raised |-> "", value |-> default]
        ELSE [fs |-> back, raised |-> "",
              value |-> IF value = None /\ default # Marker THEN default
                        ELSE value]

\* get_zip_location(file_name): the folder is made when it is missing
GetZipLocation(f, file_name) ==
    LET t == TraverseToProjectRoot(f)
        back == [t.fs EXCEPT !.cwd = f.cwd]
    IN  IF t.raised # ""
        THEN [fs |-> back, raised |-> t.raised, value |-> None]
        ELSE [fs |-> [back EXCEPT !.app_versions[t.fs.cwd] = TRUE],
              raised |-> "", value |-> file_name]

\* delete_app_versions()
DeleteAppVersions(f) ==
    LET t == TraverseToProjectRoot(f)
        back == [t.fs EXCEPT !.cwd = f.cwd]
    IN  IF t.raised # ""
        THEN [fs |-> back, raised |-> t.raised, value |-> None]
        ELSE [fs |-> [back EXCEPT !.app_versions[t.fs.cwd] = FALSE],
              raised |-> "", value |-> None]

\* commonops.create_app_version(app_name, label) up to its first call of
\* the service.  The traversal is made before the try statement opens.
\* empty tells whether the project directory is empty.  When the
\* deploy/artifact setting is true in Python's sense the archive it names is
\* taken and the next call is get_storage_location ("storage").  Otherwise
\* _zip_up_project asks for the zip location, which makes the app_versions
\* folder; when the zip file is there (zip_exists: it was left in the folder
\* before) the next call is get_storage_location, and when it is not, the
\* service is asked for the application's version labels ("labels").
CreateAppVersionFiles(f, empty, zip_exists) ==
    LET t == TraverseToProjectRoot(f)
        back == [t.fs EXCEPT !.cwd = f.cwd]
        artifact == GetConfigSetting(back, "deploy", "artifact", Marker)
        zipped == GetZipLocation(artifact.fs, "v1.zip")
        file_exists == zip_exists /\ f.app_versions[t.fs.cwd]
    IN  IF t.raised # ""
        THEN [fs |-> t.fs, raised |-> t.raised, next |-> "idle"]
        ELSE IF empty
        THEN [fs |-> back, raised |-> "", next |-> "idle"]
        ELSE IF Truthy(artifact.value)
        THEN [fs |-> artifact.fs, raised |-> "", next |-> "storage"]
        ELSE [fs |-> zipped.fs, raised |-> "",
              next |-> IF file_exists THEN "storage" ELSE "labels"]

\* what the service answers to get_app_version_labels
LabelsOutcomes == {"listed", "unlisted", "ServiceError"}

\* what it answers to get_storage_location and to
\* s3.upload_application_version
ServiceOutcomes == {"ok", "ServiceError"}

\* what s3.get_object_info answers
ObjectInfoOutcomes == {"found", "NotFoundError", "ServiceError"}

GetSetting(section, key_name, default) ==
    /\ \E w \in {GetConfigSetting(fs, section, key_name, default)} :
          /\ fs' = w.fs
          /\ lastFile' = [name |-> "get_config_setting",
                          args |-> <<section, key_name, default>>,
                          before |-> fs, raised |-> w.raised,
                          count |-> lastFile.count, value |-> w.value]
    /\ UNCHANGED <<clientVars, iterVars, wfe, cav>>

ZipLocation ==
    /\ lastFile.count < MaxFileOps
    /\ \E w \in {GetZipLocation(fs, "v1.zip")} :
          /\ fs' = w.fs
          /\ lastFile' = [name |-> "get_zip_location", args |-> <<"v1.zip">>,
                          before |-> fs, raised |-> w.raised,
                          count |-> lastFile.count + 1]
    /\ UNCHANGED <<clientVars, iterVars, wfe, cav>>

DeleteVersions ==
    /\ lastFile.count < MaxFileOps
    /\ \E w \in {DeleteAppVersions(fs)} :
          /\ fs' = w.fs
          /\ lastFile' = [name |-> "delete_app_versions", args |-> <<>>,
                          before |-> fs, raised |-> w.raised,
                          count |-> lastFile.count + 1]
    /\ UNCHANGED <<clientVars, iterVars, wfe, cav>>

\* create_app_version('app', 'v1') up to its first call of the service
CreateAppVersion(empty, zip_exists) ==
    /\ lastFile.count < MaxFileOps
    /\ cav.pc = "idle"
    /\ \E w \in {CreateAppVersionFiles(fs, empty, zip_exists)} :
          /\ fs' = w.fs
          /\ lastFile' = [name |-> "create_app_version",
                          args |-> <<"app", "v1">>,
                          before |-> fs, raised |-> w.raised,
                          count |-> lastFile.count + 1]
          /\ cav' = IF w.next = "idle" THEN cav
                    ELSE [cav EXCEPT !.pc = w.next, !.app_name = "app",
                                     !.version_label = "v1",
                                     !.warning = TRUE]
    /\ UNCHANGED <<clientVars, iterVars, wfe>>

\* create_app_version ends by raising
RaiseFromVersion(kind) ==
    /\ cav' = [cav EXCEPT !.pc = "done", !.result = kind]
    /\ lastFile' = [name |-> "create_app_version", args |-> <<"app", "v1">>,
                    before |-> fs, raised |-> kind, count |-> lastFile.count]

\* create_app_version goes on to its next call of the service
GoOnFromVersion(pc) ==
    /\ cav' = [cav EXCEPT !.pc = pc]
    /\ lastFile' = [name |-> "create_app_version", args |-> <<"app", "v1">>,
                    before |-> fs, raised |-> "", count |-> lastFile.count]

\* _zip_up_project from the answer of get_app_version_labels on: when the
\* label is not listed it goes on to fileoperations.get_ebignore_list,
\* which fileoperations does not define: AttributeError
LabelsAnswer(outcome) ==
    /\ cav.pc = "labels"
    /\ IF outcome = "listed" THEN GoOnFromVersion("storage")
       ELSE IF outcome = "unlisted" THEN RaiseFromVersion("AttributeError")
       ELSE RaiseFromVersion(outcome)
    /\ UNCHANGED <<clientVars, iterVars, wfe, fs>>

\* create_app_version from the answer of get_storage_location on
StorageAnswer(outcome) ==
    /\ cav.pc = "storage"
    /\ IF outcome = "ok" THEN GoOnFromVersion("object")
       ELSE RaiseFromVersion(outcome)
    /\ UNCHANGED <<clientVars, iterVars, wfe, fs>>

\* delete_app_versions() and the entry into _create_application_version
DeleteAndCreate ==
    \E d \in {DeleteAppVersions(fs)} :
        /\ fs' = d.fs
        /\ IF d.raised # "" THEN RaiseFromVersion(d.raised)
           ELSE GoOnFromVersion("version")

\* create_app_version from the answer of s3.get_object_info on
ObjectInfoAnswer(outcome) ==
    /\ cav.pc = "object"
    /\ IF outcome = "found" THEN DeleteAndCreate
       ELSE IF outcome = "NotFoundError"
       THEN GoOnFromVersion("upload") /\ UNCHANGED fs
       ELSE RaiseFromVersion(outcome) /\ UNCHANGED fs
    /\ UNCHANGED <<clientVars, iterVars, wfe>>

\* create_app_version from the answer of s3.upload_application_version on
UploadAnswer(outcome) ==
    /\ cav.pc = "upload"
    /\ IF outcome = "ok" THEN DeleteAndCreate
       ELSE RaiseFromVersion(outcome) /\ UNCHANGED fs
    /\ UNCHANGED <<clientVars, iterVars, wfe>>

\* write_setting_to_current_branch(keyname, value) on the branch
BranchWrite(branch_name, keyname, value) ==
    /\ lastFile.count < MaxFileOps
    /\ \E w \in {WriteSettingToCurrentBranch(fs, branch_name, keyname, value)} :
          /\ fs' = w.fs
          /\ lastFile' = [name |-> "write_setting_to_current_branch",
                          args |-> <<branch_name, keyname, value>>,
                          before |-> fs, raised |-> w.raised,
                          count |-> lastFile.count + 1]
    /\ UNCHANGED <<clientVars, iterVars, wfe, cav>>

(***************************************************************************)
(* Initial states and specifications                                       *)
(***************************************************************************)
\* a paginators file: absent, or present with its 'pagination' mapping
PageFiles(s) ==
    { [file |-> FALSE, pagination |-> {}], [file |-> TRUE, pagination |-> {}] }
    \cup { [file |-> TRUE, pagination |-> {o}] : o \in OperationNames(s) }

\* a waiters file: absent, or present with its waiters
WaiterFiles ==
    { [file |-> FALSE, waiters |-> {}], [file |-> TRUE, waiters |-> {}],
      [file |-> TRUE, waiters |-> {"ThingExists"}],
      [file |-> TRUE, waiters |-> WaiterNamesAll] }

InitObjectsButFiles ==
    /\ emitters = << <<>> >>
    /\ clients = <<>>
    /\ hist = <<>>
    /\ stats = [s \in Services |-> [loads |-> 0, fetches |-> 0, builds |-> 0]]
    /\ lastCreate = [client |-> 0, service |-> "", region |-> "",
                     endpoint_region |-> "",
                     scoped_config |-> NoScopedConfig,
                     client_config |-> NoClientConfig]
    /\ lastCall = NoCall
    /\ pagers = <<>>
    /\ handles = [name \in Pagers |-> NoHandle]
    /\ lastWait = NoWait
    /\ wfe = IdleWait
    /\ lastFile = NoFileOp
    /\ cav = IdleVersion

InitObjects == InitObjectsButFiles /\ fs = NoProject

\* the config files that a project's directory may hold when its settings
\* are read: none, or a mapping with the section and the key asked for, with
\* the section only, or with neither
ConfigFiles(value) ==
    {NoFile}
    \cup {[exists |-> TRUE, config |-> config] :
            config \in {EmptyDict,
                        OneSetting("global", OneSetting("profile", value)),
                        OneSetting("global", OneSetting("default_region", value)),
                        OneSetting("global", OneSetting("default_region", None))}}

\* the file systems in which settings are read: no project, or one in /work
ReadProjects ==
    {[NoProject EXCEPT !.cwd = d] : d \in Dirs}
    \cup {[NoProject EXCEPT !.cwd = d, !.eb[2] = TRUE, !.local[2] = local,
                            !.global[2] = global] :
            d \in Dirs, local \in ConfigFiles("local"),
            global \in ConfigFiles("global")}

\* the data files the creator and the clients of this run find
FixedFiles ==
    /\ loader.page = [s \in Services |->
                        IF s = "svcA" THEN [file |-> TRUE, pagination |-> {"ListThings"}]
                        ELSE [file |-> FALSE, pagination |-> {}]]
    /\ loader.waiter = [s \in Services |->
                        IF s = "svcA" THEN [file |-> TRUE, waiters |-> {"ThingExists"}]
                        ELSE [file |-> FALSE, waiters |-> {}]]

Loaders ==
    [retry : BOOLEAN,
     page : {f \in [Services -> UNION {PageFiles(s) : s \in Services}] :
                \A s \in Services : f[s] \in PageFiles(s)},
     waiter : [Services -> WaiterFiles]]

Init ==
    /\ InitObjects
    /\ loader \in Loaders
    /\ FixedFiles

\* only the files of svcA vary; svcB has neither file
InitDiscovery ==
    /\ InitObjects
    /\ loader \in Loaders
    /\ loader.retry
    /\ loader.page["svcB"] = [file |-> FALSE, pagination |-> {}]
    /\ loader.waiter["svcB"] = [file |-> FALSE, waiters |-> {}]

CreateAny ==
    \E s \in Services, region \in Regions, endpoint_region \in Regions,
       scoped_config \in ScopedConfigs, client_config \in ClientConfigs :
        CreateClient(s, region, endpoint_region, scoped_config, client_config)

CreateDefault ==
    \E s \in Services :
        CreateClient(s, "us-east-1", "us-east-1", NoScopedConfig,
                     NoClientConfig)

CreateOne ==
    CreateClient("svcA", "us-east-1", "us-east-1", NoScopedConfig,
                 NoClientConfig)

\* the clients whose configs are looked at
CreateInstance == Len(clients) < MaxInstances /\ CreateOne

CreateClass == \E s \in Services : CreateClientClass(s)

Clone == \E c \in 1..Len(clients), ov \in CloneOverrides : CloneClient(c, ov)

CloneDefault == \E c \in 1..Len(clients) : CloneClient(c, NoOverrides)

Register ==
    \E c \in 1..Len(clients), p \in UserPatterns, n \in UserHandlerIds :
        RegisterHandler(c, p, n)

\* calls through an endpoint that emits nothing of its own
Operation ==
    \E c \in 1..Len(clients), py \in {xform_name(o) : o \in AllOperationNames},
       kwargs \in SUBSET ParamNames, t \in TransportOutcomes :
        CallOperation(c, py, kwargs, t, {FALSE})

\* the events of a call's stages that the user's handlers subscribe to: every
\* operation's, or one operation's
StagePatterns ==
    { <<"before-parameter-build">>,
      <<"before-parameter-build", "pa", "GetThing">>,
      <<"before-call">> }

RegisterStage ==
    \E c \in 1..Len(clients), p \in StagePatterns, n \in UserHandlerIds :
        RegisterHandler(c, p, n)

OkResponse ==
    [kind |-> "response", status |-> 200,
     parsed |-> [Code |-> "", Message |-> "", Data |-> "things"], error |-> ""]

OperationAnswered ==
    \E c \in 1..Len(clients), py \in {xform_name(o) : o \in AllOperationNames},
       kwargs \in SUBSET ParamNames :
        CallOperation(c, py, kwargs, OkResponse, BOOLEAN)

\* what one send can meet: the retryable status, success, a timeout
Unavailable ==
    [kind |-> "response", status |-> RetryStatus,
     parsed |-> [Code |-> "Throttling", Message |-> "Rate exceeded", Data |-> ""],
     error |-> ""]

TimedOut ==
    [kind |-> "error", status |-> 0, parsed |-> NoBody, error |-> "ReadTimeout"]

Scripts == [1..(RetryLimit + 1) -> {Unavailable, OkResponse, TimedOut}]

ScriptedOperation ==
    \E c \in 1..Len(clients), py \in {xform_name(o) : o \in AllOperationNames},
       kwargs \in {{}, {"Bogus"}}, script \in Scripts :
        CallScripted(c, py, kwargs, script, BOOLEAN)

Obtain ==
    \E name \in Pagers, c \in 1..Len(clients),
       py \in {xform_name(o) : o \in AllOperationNames}, base \in {{}, {"Id"}} :
        ObtainPaginator(name, c, py, base)

Page == \E name \in Pagers, token \in Tokens \cup {NoToken} : NextPage(name, token)

WaitCall ==
    \E c \in 1..Len(clients), w \in WaiterArgs, script \in PollScripts :
        CallWait(c, w, script)

StartWait ==
    \E timeout_in_minutes \in Timeouts, stream_events \in BOOLEAN :
        WaitStart(timeout_in_minutes, stream_events)

PollFirst == \E batch \in BatchesOf(OwnEvents) : FirstPoll(batch)

PollSecond == \E batch \in BatchesOf(EnvironmentEvents) : SecondPoll(batch)

Chdir == \E d \in Dirs : ChangeDir(d)

WriteSome ==
    \E setting \in Settings, value \in Values :
        WriteSetting(setting[1], setting[2], value)

CreateSome ==
    \E app_name \in Values, region \in Values, solution_stack \in Values :
        CreateConfig(app_name, region, solution_stack)

CreateOld == CreateConfig("old", "old", "old")

VersionStart == \E warning \in BOOLEAN : StartVersion("app", "v1", warning)

VersionAnswered == \E outcome \in VersionOutcomes : VersionAnswer(outcome)

AppAnswered ==
    \E outcome \in AppOutcomes, branch_name \in Branches :
        AppAnswer(outcome, branch_name)

EnvironmentsAnswered ==
    \E outcome \in EnvironmentsOutcomes, chosen \in 1..Len(Environments),
       branch_name \in Branches :
        EnvironmentsAnswer(outcome, chosen, branch_name)

KeynameAnswered == \E outcome \in KeynameOutcomes : KeynameAnswer(outcome)

ReadSome ==
    \E key_name \in {"default_region", "profile"}, default \in Defaults :
        GetSetting("global", key_name, default)

ReadRegion ==
    \E default \in {Marker, "dflt"} :
        GetSetting("global", "default_region", default)

WriteProfile == WriteSetting("global", "profile", "new")

\* the version is created, or the application does not exist
VersionTried ==
    \E outcome \in {o \in VersionOutcomes :
                        \/ o.kind = "ok"
                        \/ o.message = AppNotExists("app")} :
        VersionAnswer(outcome)

AppCreated == \E branch_name \in Branches : AppAnswer("created", branch_name)

WriteArtifact ==
    \E value \in {"new", ""} : WriteSetting("deploy", "artifact", value)

AppVersionCreate ==
    \E empty \in BOOLEAN, zip_exists \in BOOLEAN :
        CreateAppVersion(empty, zip_exists)

LabelsAnswered == \E outcome \in LabelsOutcomes : LabelsAnswer(outcome)

StorageAnswered == \E outcome \in ServiceOutcomes : StorageAnswer(outcome)

ObjectInfoAnswered ==
    \E outcome \in ObjectInfoOutcomes : ObjectInfoAnswer(outcome)

UploadAnswered == \E outcome \in ServiceOutcomes : UploadAnswer(outcome)

BranchWriteSome ==
    \E branch_name \in Branches, keyname \in {"environment", "profile"},
       value \in Values \cup {None} :
        BranchWrite(branch_name, keyname, value)

CanPaginateCall ==
    \E c \in 1..Len(clients), py \in {xform_name(o) : o \in AllOperationNames} :
        CallCanPaginate(c, py)

GetPaginatorCall ==
    \E c \in 1..Len(clients), py \in {xform_name(o) : o \in AllOperationNames} :
        CallGetPaginator(c, py)

GetWaiterCall ==
    \E c \in 1..Len(clients), w \in WaiterArgs : CallGetWaiter(c, w)

WaiterNamesCall == \E c \in 1..Len(clients) : CallWaiterNames(c)

\* the creator: classes and clients of the services
NextCreator == CreateClass \/ CreateDefault
SpecCreator == Init /\ [][NextCreator]_vars

\* signature version resolution at client construction
NextSig == CreateAny
SpecSig == Init /\ [][NextSig]_vars

\* clients, their clones and the handlers registered on them
NextClone == CreateOne \/ Clone \/ Register
SpecClone == Init /\ [][NextClone]_vars

\* operation calls
NextCall == CreateDefault \/ CloneDefault \/ Operation
SpecCall == Init /\ [][NextCall]_vars

\* pagination and waiter discovery
NextDiscovery ==
    \/ CreateInstance
    \/ CanPaginateCall \/ GetPaginatorCall \/ GetWaiterCall \/ WaiterNamesCall
SpecDiscovery == InitDiscovery /\ [][NextDiscovery]_vars

\* operation calls with the user's handlers on their stages
InitHandlers == Init /\ loader.retry
NextHandlers == CreateInstance \/ RegisterStage \/ OperationAnswered
SpecHandlers == InitHandlers /\ [][NextHandlers]_vars

\* operation calls whose sends meet a script of responses
NextRetry == CreateInstance \/ ScriptedOperation
SpecRetry == Init /\ [][NextRetry]_vars

\* paginators in use
InitPaginate == Init /\ loader.retry
NextPaginate == CreateInstance \/ Obtain \/ Page
SpecPaginate == InitPaginate /\ [][NextPaginate]_vars

\* waiters in use; the waiters file of svcA varies
InitWaiters ==
    /\ InitDiscovery
    /\ loader.page["svcA"] = [file |-> TRUE, pagination |-> {"ListThings"}]
NextWaiters == CreateInstance \/ WaitCall
SpecWaiters == InitWaiters /\ [][NextWaiters]_vars

\* one call of wait_for_success_events
NextWaitEvents == StartWait \/ PollFirst \/ PollSecond \/ TimeOut \/ PollFails
InitWaitEvents == Init /\ loader.retry
SpecWaitEvents == InitWaitEvents /\ [][NextWaitEvents]_vars

\* the config file of a project
NextConfig ==
    Chdir \/ WriteSome \/ CreateSome \/ TouchConfigFolder \/ CleanUp
InitConfig == Init /\ loader.retry
SpecConfig == InitConfig /\ [][NextConfig]_vars

\* one call of _create_application_version, in a project or outside one
NextAppVersion ==
    \/ CreateOld \/ VersionStart \/ VersionAnswered \/ AppAnswered
    \/ EnvironmentsAnswered \/ KeynameAnswered
InitAppVersion == Init /\ loader.retry
SpecAppVersion == InitAppVersion /\ [][NextAppVersion]_vars

\* reading the settings of a project
InitGet ==
    /\ InitObjectsButFiles
    /\ loader \in Loaders
    /\ FixedFiles
    /\ loader.retry
    /\ fs \in ReadProjects
NextGet == Chdir \/ ReadSome
SpecGet == InitGet /\ [][NextGet]_vars

\* the operations that go to the project root
NextRoot ==
    \/ Chdir \/ CreateOld \/ TouchConfigFolder \/ CleanUp \/ WriteArtifact
    \/ ReadRegion \/ ZipLocation \/ DeleteVersions \/ AppVersionCreate
    \/ LabelsAnswered \/ StorageAnswered \/ ObjectInfoAnswered
    \/ UploadAnswered \/ VersionTried \/ AppCreated
InitRoot == Init /\ loader.retry
SpecRoot == InitRoot /\ [][NextRoot]_vars

\* the settings of the branches of a project
NextBranch == Chdir \/ CreateOld \/ WriteProfile \/ BranchWriteSome
InitBranch == Init /\ loader.retry
SpecBranch == InitBranch /\ [][NextBranch]_vars

Next == NextCreator \/ Clone \/ Register
Spec == Init /\ [][Next]_vars

(***************************************************************************)
(* Properties of the operation call (SpecCall)                             *)
(***************************************************************************)
CallService == clients[lastCall.client].service
CallOperationName == ActualName(CallService, lastCall.op)
CallEvent(name) == <<name, EndpointPrefix(CallService), CallOperationName>>

\* the steps of the last call: the first segment of an emitted event's name,
\* or the name of the step
CallSteps ==
    [i \in 1..Len(lastCall.log) |->
        IF lastCall.log[i].step = "emit"
        THEN lastCall.log[i].event[1] ELSE lastCall.log[i].step]

TransportInvoked ==
    \E i \in 1..Len(lastCall.log) : lastCall.log[i].step = "make_request"

TransportReturned ==
    /\ lastCall.kind = "api"
    /\ TransportInvoked
    /\ lastCall.transport.kind = "response"

\* C1: a call whose transport returns a response emits
\* before-parameter-build, before-call and after-call for its operation once
\* each and in that order, serializes between the first two, calls the
\* transport once between the last two and checks the status code last.
C1_CallLifecycle ==
    TransportReturned =>
        /\ CallSteps = <<"before-parameter-build", "serialize", "before-call",
                         "make_request", "after-call", "status_check">>
        /\ \A i \in 1..Len(lastCall.log) :
              lastCall.log[i].step = "emit" =>
                 lastCall.log[i].event = CallEvent(lastCall.log[i].event[1])

C1_Witness ==
    /\ TransportReturned
    /\ lastCall.transport.status = 404
    /\ lastCall.outcome.kind = "raise"

\* C2: a response with status code 300 or more makes the call raise a
\* ClientError carrying the parsed response and the operation name; a status
\* code below 300 makes it return the parsed response.
C2_StatusDecides ==
    TransportReturned =>
        IF lastCall.transport.status >= 300
        THEN /\ lastCall.outcome.kind = "raise"
             /\ lastCall.outcome.error = "ClientError"
             /\ lastCall.outcome.response = lastCall.transport.parsed
             /\ lastCall.outcome.operation_name = CallOperationName
        ELSE /\ lastCall.outcome.kind = "return"
             /\ lastCall.outcome.response = lastCall.transport.parsed

C2_Witness ==
    /\ TransportReturned
    /\ lastCall.transport.status = 300
    /\ lastCall.outcome.kind = "raise"
    /\ lastCall.outcome.response.Code = "Throttling"

\* C3: when the parameters fail validation the call raises the validation
\* error at once: the transport is not invoked, nothing is offered for retry
\* and neither before-call nor after-call is emitted.
C3_ValidationStopsCall ==
    (lastCall.kind = "api" /\ ~Serialize(lastCall.kwargs, CallOperationName).ok) =>
        /\ lastCall.outcome.kind = "raise"
        /\ lastCall.outcome.error = "ParamValidationError"
        /\ CallSteps = <<"before-parameter-build", "serialize">>
        /\ ~TransportInvoked
        /\ \A i \in 1..Len(lastCall.log) :
              lastCall.log[i].step = "emit" =>
                 lastCall.log[i].event[1] \notin
                    {"before-call", "after-call", "needs-retry"}

C3_Witness ==
    /\ lastCall.kind = "api"
    /\ "Bogus" \in lastCall.kwargs
    /\ lastCall.transport.kind = "response"
    /\ lastCall.outcome.error = "ParamValidationError"

(***************************************************************************)
(* Properties of signature version resolution (SpecSig)                    *)
(***************************************************************************)
CreatedSigner == clients[lastCreate.client].request_signer

HasExplicit ==
    lastCreate.client_config.present
    /\ lastCreate.client_config.signature_version # None

HasEndpointProperty ==
    ConstructEndpoint(EndpointPrefix(lastCreate.service),
                      lastCreate.endpoint_region).hasSignatureVersion

EndpointProperty ==
    ConstructEndpoint(EndpointPrefix(lastCreate.service),
                      lastCreate.endpoint_region).signatureVersion

HasScopedOverride ==
    lastCreate.scoped_config.kind = "dict"
    /\ Truthy(lastCreate.scoped_config.signature_version)

\* C4 as stated: explicit override, then endpoint property, then scoped
\* configuration override, then the service model's default.
C4_EndpointBeforeScoped ==
    lastCreate.client # 0 =>
        CreatedSigner.signature_version =
            IF HasExplicit THEN lastCreate.client_config.signature_version
            ELSE IF HasEndpointProperty THEN EndpointProperty
            ELSE IF HasScopedOverride THEN lastCreate.scoped_config.signature_version
            ELSE ModelSignatureVersion(lastCreate.service)

\* C4 amended: the signature version of a new client's signer is the
\* explicit override, else the scoped configuration override, else the
\* endpoint property, else the service model's default.
C4_ScopedBeforeEndpoint ==
    lastCreate.client # 0 =>
        CreatedSigner.signature_version =
            IF HasExplicit THEN lastCreate.client_config.signature_version
            ELSE IF HasScopedOverride THEN lastCreate.scoped_config.signature_version
            ELSE IF HasEndpointProperty THEN EndpointProperty
            ELSE ModelSignatureVersion(lastCreate.service)

C4_Witness ==
    /\ lastCreate.client # 0
    /\ ~HasExplicit
    /\ HasScopedOverride
    /\ HasEndpointProperty
    /\ CreatedSigner.signature_version = "s3v4"

(***************************************************************************)
(* Properties of retry registration (SpecCreator)                          *)
(***************************************************************************)
RetryEvent(s) == <<"needs-retry", EndpointPrefix(s)>>

\* the registrations an emitter holds for needs-retry.<prefix> of service s
RetryRegs(e, s) == SelectSeq(emitters[e], LAMBDA r : r.pattern = RetryEvent(s))

\* the retry handlers fired when client c emits needs-retry for its service
RetryFired(c) ==
    SelectSeq(Fired(c, RetryEvent(clients[c].service)),
              LAMBDA h : h.kind = "retry")

\* C5: with a non-empty retry rule set, the creator's emitter holds exactly
\* one handler for needs-retry.<prefix> of every loaded service, under the
\* id retry-config-<prefix>, and every created client fires exactly one
\* retry handler per needs-retry event of its service.
C5_OneRetryHandler ==
    loader.retry =>
        /\ \A s \in Services :
              /\ Len(RetryRegs(1, s)) = IF stats[s].loads > 0 THEN 1 ELSE 0
              /\ \A i \in 1..Len(RetryRegs(1, s)) :
                    RetryRegs(1, s)[i].uid = <<"retry-config", EndpointPrefix(s)>>
        /\ \A c \in 1..Len(clients) :
              hist[c].parent = 0 => Len(RetryFired(c)) = 1

C5_Witness ==
    /\ loader.retry
    /\ stats["svcA"].loads >= 4
    /\ stats["svcB"].loads >= 1
    /\ Len(clients) >= 2
    /\ \E c \in 1..Len(clients) : clients[c].service = "svcA"

\* C6 as stated: the rule set is fetched and the retry configuration built
\* once per service, on the first load only.
C6_BuiltOnce ==
    \A s \in Services : stats[s].fetches <= 1 /\ stats[s].builds <= 1

\* C6 amended: every load of a service's model fetches the rule set and,
\* when it is non-empty, builds a configuration and a handler; the handler
\* registered is the one built on the first load and is never replaced.
C6_BuiltEveryLoadRegisteredOnce ==
    \A s \in Services :
        /\ stats[s].fetches = stats[s].loads
        /\ stats[s].builds = IF loader.retry THEN stats[s].loads ELSE 0
        /\ \A i \in 1..Len(RetryRegs(1, s)) :
              RetryRegs(1, s)[i].handler = RetryHandler(EndpointPrefix(s), 1)

C6_Witness ==
    /\ loader.retry
    /\ stats["svcA"].builds >= 3
    /\ Len(RetryRegs(1, "svcA")) = 1
    /\ Len(clients) >= 1

(***************************************************************************)
(* Properties of pagination and waiter discovery (SpecDiscovery)           *)
(***************************************************************************)
\* the service's paginators file has an entry for the operation
HasPageEntry(s, op) == loader.page[s].file /\ op \in loader.page[s].pagination

\* C7: can_paginate(op) is true exactly when the service's page config has
\* an entry for the operation; get_paginator(op) returns a paginator bound
\* to the operation's method and page-config entry exactly then, and fails
\* with OperationNotPageableError otherwise, as it always does when the
\* service has no page config.
C7_PaginationCapability ==
    /\ lastCall.kind = "can_paginate" =>
          lastCall.outcome = HasPageEntry(CallService, CallOperationName)
    /\ lastCall.kind = "get_paginator" =>
          IF HasPageEntry(CallService, CallOperationName)
          THEN /\ lastCall.outcome.kind = "return"
               /\ lastCall.outcome.method = <<lastCall.client, lastCall.op>>
               /\ lastCall.outcome.config = PageEntry(CallOperationName)
          ELSE /\ lastCall.outcome.kind = "raise"
               /\ lastCall.outcome.error = "OperationNotPageableError"

C7_Witness ==
    /\ lastCall.kind = "get_paginator"
    /\ lastCall.outcome.kind = "return"
    /\ lastCall.op = "get_thing"
    /\ clients[lastCall.client].cache.page_config.value = {"GetThing"}

\* C8: on every client the loader is asked for the page config and for the
\* waiter config at most once each, never before the first use; from the
\* first use on the config is cached, an absent file as an empty config.
C8_ConfigsLoadedOnce ==
    \A c \in 1..Len(clients) :
        LET s == clients[c].service
            cache == clients[c].cache
        IN  /\ hist[c].pageLoads = (IF hist[c].pageUses > 0 THEN 1 ELSE 0)
            /\ hist[c].waiterLoads = (IF hist[c].waiterUses > 0 THEN 1 ELSE 0)
            /\ cache.page_config.cached = (hist[c].pageUses > 0)
            /\ cache.waiter_config.cached = (hist[c].waiterUses > 0)
            /\ (cache.page_config.cached /\ ~loader.page[s].file) =>
                   cache.page_config.value = {}
            /\ (cache.waiter_config.cached /\ ~loader.waiter[s].file) =>
                   cache.waiter_config.value.empty

C8_Witness ==
    \E c \in 1..Len(clients) :
        /\ ~loader.page[clients[c].service].file
        /\ ~loader.waiter[clients[c].service].file
        /\ hist[c].pageUses = 2
        /\ hist[c].waiterUses = 2
        /\ hist[c].pageLoads = 1
        /\ hist[c].waiterLoads = 1

(***************************************************************************)
(* Properties of clone_client (SpecClone)                                  *)
(***************************************************************************)
\* the events a client or its endpoint emits
EventsOf(s) ==
    { <<"request-created">>, RetryEvent(s) }
    \cup { <<n, EndpointPrefix(s), o>> :
             n \in {"before-parameter-build", "before-call", "after-call"},
             o \in OperationNames(s) }

\* the registrations client c's emitter began with and those made through c
OwnRegistry(c) == hist[c].inherited \o hist[c].ownRegs

\* C9: a clone's emitter begins with the handlers the original's emitter
\* held when it was cloned, and from then on each of the two fires exactly
\* the handlers it began with and those registered through its own client:
\* a handler registered later on one of them never fires on the other.
C9_CloneEmitterIndependent ==
    \A c \in 1..Len(clients) :
        /\ \A ev \in EventsOf(clients[c].service) :
              EmitterEmit(emitters[clients[c].events], ev) =
                 EmitterEmit(OwnRegistry(c), ev)
        /\ hist[c].parent # 0 =>
              hist[c].inherited =
                 hist[hist[c].parent].inherited \o
                 SubSeq(hist[hist[c].parent].ownRegs, 1, hist[c].cloneAt)

\* handlers fired on c for request-created
CreatedFired(c) == Fired(c, <<"request-created">>)

InSeq(x, sq) == \E i \in 1..Len(sq) : sq[i] = x

C9_Witness ==
    \E c \in 1..Len(clients) :
        /\ hist[c].parent # 0
        /\ InSeq(UserHandler(1), CreatedFired(c))
        /\ ~InSeq(UserHandler(1), CreatedFired(hist[c].parent))
        /\ InSeq(UserHandler(2), CreatedFired(hist[c].parent))
        /\ ~InSeq(UserHandler(2), CreatedFired(c))
        /\ Len(CreatedFired(c)) = 2

\* C10: when request-created is emitted on a client's emitter, the request
\* is signed once, by that client's own request signer; for a clone that
\* is the signer passed to clone_client, or the original's when none was.
C10_CloneSignsWithItsSigner ==
    \A c \in 1..Len(clients) : SignedBy(c) = <<clients[c].request_signer>>

(***************************************************************************)
(* Properties of the signing registration (SpecClone)                      *)
(***************************************************************************)
\* the signing handlers registered to 'request-created' on emitter e
SignRegs(e) ==
    SelectSeq(emitters[e],
              LAMBDA r : r.pattern = <<"request-created">> /\ r.handler.kind = "sign")

\* C11: the emitter of every client, created or cloned, holds exactly one
\* signing handler registered to request-created, and the creator's emitter
\* holds none, however many clients were created and whatever the user
\* registered.
C11_OneSigningHandler ==
    /\ Len(SignRegs(1)) = 0
    /\ \A c \in 1..Len(clients) :
          /\ clients[c].events # 1
          /\ Len(SignRegs(clients[c].events)) = 1

\* two clients, the second a clone of the first, and a user handler
\* registered to request-created on the clone
C11_Witness ==
    /\ Len(clients) = 2
    /\ hist[2].parent = 1
    /\ clients[2].events # clients[1].events
    /\ Len(SignRegs(clients[2].events)) = 1
    /\ \E i \in 1..Len(emitters[clients[2].events]) :
          /\ emitters[clients[2].events][i].pattern = <<"request-created">>
          /\ emitters[clients[2].events][i].handler.kind = "user"

(***************************************************************************)
(* Properties of waiter discovery (SpecDiscovery)                          *)
(***************************************************************************)
\* the normalized names of the waiters in the service's waiters file
NormalizedWaiterNames(s) ==
    IF loader.waiter[s].file
    THEN {xform_name(n) : n \in loader.waiter[s].waiters} ELSE {}

\* C13: get_waiter(name) returns a waiter exactly when name is one of the
\* client's waiter_names, the waiter being the one whose normalized name it
\* is, and raises ValueError otherwise; waiter_names is the set of the
\* normalized names of the service's waiter config and is empty when the
\* service has none, so that every get_waiter then fails.
C13_WaiterIffNamed ==
    /\ lastCall.kind = "get_waiter" =>
          LET c == lastCall.client
              names == WaiterNames(StateOf(c)).result
              out == lastCall.outcome
          IN  /\ names = NormalizedWaiterNames(clients[c].service)
              /\ (out.kind = "return") <=> (lastCall.op \in names)
              /\ out.kind = "return" =>
                    /\ xform_name(out.name) = lastCall.op
                    /\ out.client = c
              /\ out.kind # "return" =>
                    /\ out.kind = "raise"
                    /\ out.error = "ValueError"
              /\ ~loader.waiter[clients[c].service].file =>
                    /\ names = {}
                    /\ out.kind = "raise"
    /\ lastCall.kind = "waiter_names" =>
          lastCall.outcome = NormalizedWaiterNames(clients[lastCall.client].service)

\* a waiter returned for the second of two names of the waiters file
C13_Witness ==
    /\ lastCall.kind = "get_waiter"
    /\ lastCall.op = "thing_gone"
    /\ lastCall.outcome.kind = "return"
    /\ lastCall.outcome.name = "ThingGone"
    /\ clients[lastCall.client].waiter_names.cached

(***************************************************************************)
(* Properties of the failing call and of signing (SpecCall)                *)
(***************************************************************************)
\* C18: when endpoint.make_request ends with a transport error, the call
\* raises that same error, returns no result, emits no after-call event and
\* takes no step after the call of the transport.
C18_TransportErrorPropagates ==
    (/\ lastCall.kind = "api"
     /\ TransportInvoked
     /\ lastCall.transport.kind = "error") =>
        /\ lastCall.outcome.kind = "raise"
        /\ lastCall.outcome.error = lastCall.transport.error
        /\ lastCall.outcome.error \in TransportErrors
        /\ lastCall.outcome.response = NoBody
        /\ \A i \in 1..Len(CallSteps) : CallSteps[i] # "after-call"
        /\ CallSteps[Len(CallSteps)] = "make_request"

\* a call through a clone whose transport timed out
C18_Witness ==
    /\ lastCall.kind = "api"
    /\ TransportInvoked
    /\ lastCall.transport.kind = "error"
    /\ lastCall.transport.error = "ReadTimeout"
    /\ lastCall.outcome.error = "ReadTimeout"
    /\ hist[lastCall.client].parent # 0

\* the handlers fired by the emit of the event of that name in the last call
FiredAt(name) ==
    LET i == CHOOSE k \in 1..Len(lastCall.log) :
                 lastCall.log[k].step = "emit" /\ lastCall.log[k].event[1] = name
    IN  lastCall.log[i].fired

\* C12: once before-call has been emitted, the envelope handed to
\* the transport has been signed by a handler subscribed to before-call.
C12_SignedAtBeforeCall ==
    (lastCall.kind = "api" /\ TransportInvoked) =>
        /\ lastCall.request.signed_by # <<>>
        /\ \E i \in 1..Len(FiredAt("before-call")) :
              FiredAt("before-call")[i].kind = "sign"

(***************************************************************************)
(* Properties of the handlers' mutations (SpecHandlers)                    *)
(***************************************************************************)
\* user handler n was called by the emit of the event of that name
UserFired(name, n) ==
    \E i \in 1..Len(FiredAt(name)) : FiredAt(name)[i] = UserHandler(n)

\* the caller's mapping as the before-parameter-build handlers of the last
\* call leave it
ParamsLeft ==
    (lastCall.kwargs
        \cup (IF UserFired("before-parameter-build", 1) THEN {"Id"} ELSE {}))
    \ (IF UserFired("before-parameter-build", 2) THEN {"Bogus"} ELSE {})

\* C19: the parameters that are validated and serialized are the caller's
\* mapping as left by the before-parameter-build handlers, and the envelope
\* handed to the transport is the serialized one as left by the before-call
\* handlers.
C19_MutationsPropagate ==
    lastCall.kind = "api" =>
        /\ lastCall.built = ParamsLeft
        /\ (lastCall.outcome.error = "ParamValidationError")
              <=> ~(ParamsLeft \subseteq InputMembers(CallOperationName))
        /\ TransportInvoked <=> (ParamsLeft \subseteq InputMembers(CallOperationName))
        /\ TransportInvoked =>
              /\ lastCall.request.params = ParamsLeft
              /\ lastCall.request.operation = CallOperationName
              /\ lastCall.request.headers =
                    {n \in UserHandlerIds : UserFired("before-call", n)}
              /\ lastCall.sent.params = ParamsLeft
              /\ lastCall.request.headers \subseteq lastCall.sent.headers

\* a call with a parameter that fails validation, deleted by a handler of
\* before-parameter-build, and a header added by a handler of before-call
C19_Witness ==
    /\ TransportReturned
    /\ lastCall.kwargs = {"Bogus"}
    /\ UserFired("before-parameter-build", 2)
    /\ lastCall.request.params = {}
    /\ lastCall.request.headers # {}

(***************************************************************************)
(* Properties of retries (SpecRetry)                                       *)
(***************************************************************************)
\* how many sends of the script meet a retryable response before the first
\* that does not
LeadingRetryable(script) ==
    IF \A i \in 1..Len(script) : Retryable(script[i])
    THEN Len(script)
    ELSE (CHOOSE i \in 1..Len(script) :
              /\ ~Retryable(script[i])
              /\ \A k \in 1..(i - 1) : Retryable(script[k])) - 1

MakeRequestSteps == {i \in 1..Len(CallSteps) : CallSteps[i] = "make_request"}

\* C16: with a retry rule set (RetryLimit retries), a call whose first
\* j <= RetryLimit sends meet a retryable response and whose next send
\* succeeds returns that result after exactly j + 1 sends; when every send is
\* retryable the endpoint gives up after RetryLimit + 1 sends with the last
\* one's result; without a needs-retry handler there is a single send; and
\* the call itself calls make_request once.
C16_RetriesUntilSuccess ==
    (lastCall.kind = "api" /\ TransportInvoked) =>
        LET j == LeadingRetryable(lastCall.script)
        IN  /\ Cardinality(MakeRequestSteps) = 1
            /\ lastCall.sends \in 1..(RetryLimit + 1)
            /\ lastCall.transport = lastCall.script[lastCall.sends]
            /\ loader.retry => lastCall.sends = IF j <= RetryLimit THEN j + 1 ELSE j
            /\ ~loader.retry => lastCall.sends = 1
            /\ (loader.retry /\ j <= RetryLimit
                    /\ lastCall.script[j + 1] = OkResponse) =>
                  lastCall.outcome = Return(OkResponse.parsed)

\* RetryLimit sends met the retryable status and the next one succeeded
C16_Witness ==
    /\ lastCall.kind = "api"
    /\ TransportInvoked
    /\ Len(lastCall.script) = RetryLimit + 1
    /\ \A i \in 1..RetryLimit : lastCall.script[i] = Unavailable
    /\ lastCall.script[RetryLimit + 1] = OkResponse
    /\ lastCall.sends = RetryLimit + 1
    /\ lastCall.outcome = Return(OkResponse.parsed)

(***************************************************************************)
(* Properties of paginators and waiters in use (SpecPaginate, SpecWaiters) *)
(***************************************************************************)
Obtained == {name \in Pagers : handles[name].ref # 0}

\* C14: every request of a paginator carries the caller's base parameters;
\* the first carries no token and request i+1 carries the token of page i;
\* no request follows a page without a token, so that tokens t1..tk and then
\* none make k+1 requests and pages; and two paginators obtained from
\* get_paginator are two objects, neither seeing the other's tokens.
C14_TokenThreaded ==
    /\ \A name \in Obtained :
          LET h == handles[name]
          IN  /\ Len(h.sent) = Len(h.got)
              /\ \A i \in 1..Len(h.sent) :
                    /\ h.sent[i].params = h.base
                    /\ h.sent[i].token = IF i = 1 THEN NoToken ELSE h.got[i - 1]
              /\ \A i \in 1..(Len(h.got) - 1) : h.got[i] # NoToken
              /\ pagers[h.ref].done <=>
                    (h.got # <<>> /\ h.got[Len(h.got)] = NoToken)
              /\ pagers[h.ref].token =
                    IF h.got = <<>> THEN NoToken ELSE h.got[Len(h.got)]
    /\ \A n1, n2 \in Obtained : n1 # n2 => handles[n1].ref # handles[n2].ref

\* two paginators over the same method of the same client: one has drawn
\* pages with tokens A and B and a last page, the other then its first one
C14_Witness ==
    /\ Obtained = Pagers
    /\ pagers[handles["p"].ref].method = pagers[handles["q"].ref].method
    /\ handles["p"].got = <<"A", "B", NoToken>>
    /\ Len(handles["p"].sent) = 3
    /\ handles["p"].sent[3].token = "B"
    /\ handles["q"].got = <<"B">>
    /\ handles["q"].sent[1].token = NoToken
    /\ handles["q"].base = {"Id"}

\* the waiter that the argument of the last wait names
NamedWaiter == CHOOSE n \in WaiterNamesAll : xform_name(n) = lastWait.arg

\* C15: a wait makes at most as many calls as the budget of the waiter that
\* was asked for; when none of them matches a rule it makes exactly that
\* many and fails with 'Max attempts exceeded'; it succeeds only by a call
\* that matched a success rule, all calls before it having matched nothing.
C15_WaiterBudget ==
    lastWait.kind = "wait" =>
        LET N == MaxAttemptsOf(NamedWaiter)
        IN  /\ lastWait.waiter = NamedWaiter
            /\ lastWait.calls \in 1..N
            /\ lastWait.result \in {"success", "WaiterError"}
            /\ (\A i \in 1..N : lastWait.script[i] = "none") =>
                  /\ lastWait.calls = N
                  /\ lastWait.result = "WaiterError"
                  /\ lastWait.reason = "Max attempts exceeded"
            /\ lastWait.result = "success" =>
                  /\ lastWait.script[lastWait.calls] = "success"
                  /\ \A i \in 1..(lastWait.calls - 1) : lastWait.script[i] = "none"
            /\ \A i \in 1..(lastWait.calls - 1) : lastWait.script[i] = "none"

\* a budget of at least two calls used up by polls that match nothing, the
\* poll after the budget being one that would have matched success
C15_Witness ==
    /\ lastWait.kind = "wait"
    /\ MaxAttemptsOf(lastWait.waiter) >= 2
    /\ \A i \in 1..MaxAttemptsOf(lastWait.waiter) : lastWait.script[i] = "none"
    /\ lastWait.script[MaxAttemptsOf(lastWait.waiter) + 1] = "success"
    /\ lastWait.calls = MaxAttemptsOf(lastWait.waiter)
    /\ lastWait.result = "WaiterError"

(***************************************************************************)
(* Properties of wait_for_success_events (SpecWaitEvents)                  *)
(***************************************************************************)
\* C17: the deadline is checked on every polling iteration: no iteration
\* that begins when timeout_in_minutes have passed since the start fetches
\* events again instead of raising TimeoutError.
C17_DeadlineEveryIteration == ~wfe.late

(***************************************************************************)
(* Properties of the project's config file (SpecConfig)                    *)
(***************************************************************************)
\* the config.yml that create_config_file works on: that of the working
\* directory, before and after the call
ConfigBefore == GetYamlDict(lastFile.before, fs.cwd)
ConfigAfter == GetYamlDict(fs, fs.cwd)

\* every section and key other than the three created ones is unchanged
OtherSettingsKept ==
    /\ \A d \in Dirs \ {fs.cwd} : fs.local[d] = lastFile.before.local[d]
    /\ \A s \in DOMAIN ConfigBefore :
          /\ s \in DOMAIN ConfigAfter
          /\ \A k \in DOMAIN ConfigBefore[s] :
                (s = "global" /\ k \in CreatedKeys)
                \/ (k \in DOMAIN ConfigAfter[s]
                    /\ ConfigAfter[s][k] = ConfigBefore[s][k])
    /\ \A s \in DOMAIN ConfigAfter :
          \A k \in DOMAIN ConfigAfter[s] :
              (s = "global" /\ k \in CreatedKeys)
              \/ (s \in DOMAIN ConfigBefore /\ k \in DOMAIN ConfigBefore[s])

\* the values that the three created keys had are unchanged
ExistingSettingsKept ==
    "global" \in DOMAIN ConfigBefore =>
        \A k \in CreatedKeys \cap DOMAIN ConfigBefore["global"] :
            ConfigAfter["global"][k] = ConfigBefore["global"][k]

\* C20: after create_config_file on a config that has values for
\* application_name, default_region or default_platform, those values are
\* unchanged, and every other section and key of the file is unchanged.
C20_ExistingSettingsNotOverridden ==
    lastFile.name = "create_config_file" =>
        ExistingSettingsKept /\ OtherSettingsKept

(***************************************************************************)
(* Properties of _create_application_version (SpecAppVersion)              *)
(***************************************************************************)
\* the two error cases, as the messages that name them
SaysVersionExists(outcome) ==
    /\ outcome.kind = "InvalidParameterValueError"
    /\ outcome.message.head = "Application Version "
    /\ outcome.message.tail = " already exists."

SaysAppNotExists(outcome) ==
    /\ outcome.kind = "InvalidParameterValueError"
    /\ ~SaysVersionExists(outcome)
    /\ outcome.message = AppNotExists(cav.app_name)

Returned ==
    /\ cav.pc = "done"
    /\ cav.result = "return"
    /\ cav.value = cav.version_label
    /\ cav.error = NoOutcome

\* C21: whatever create_application_version answered last: on success and
\* on 'version already exists' the version label is returned and nothing is
\* raised; on 'application does not exist' create_app is called (it is
\* waiting for create_application, for the application's environments or
\* for the environment's key name), and once it has returned
\* create_application_version is to be called again, unless create_app
\* itself raised; any other InvalidParameterValueError is raised to the
\* caller as it was.
C21_TwoErrorCasesHandled ==
    /\ cav.last.kind = "ok" => Returned
    /\ SaysVersionExists(cav.last) => Returned
    /\ SaysAppNotExists(cav.last) =>
          \/ cav.pc = "app" /\ cav.app_calls = cav.version_calls - 1
          \/ cav.pc \in {"envs", "keyname"}
                /\ cav.app_calls = cav.version_calls
          \/ cav.pc = "version" /\ cav.app_calls = cav.version_calls
          \/ /\ cav.pc = "done"
             /\ cav.app_calls = cav.version_calls
             /\ cav.result \in {"ServiceError", "NotInitializedError"}
    /\ (/\ cav.last.kind = "InvalidParameterValueError"
        /\ ~SaysVersionExists(cav.last)
        /\ ~SaysAppNotExists(cav.last)) =>
          /\ cav.pc = "done"
          /\ cav.result = "InvalidParameterValueError"
          /\ cav.error = cav.last
    /\ cav.pc = "done" /\ cav.result = "return" =>
          cav.last.kind = "ok" \/ SaysVersionExists(cav.last)

\* the application did not exist, was created, and the second try succeeded
C21_Witness ==
    /\ Returned
    /\ cav.last.kind = "ok"
    /\ cav.app_calls = 1
    /\ cav.version_calls = 2

\* C22: one invocation calls create_app at most once and
\* create_application_version at most twice.
C22_AtMostOneRetry == cav.app_calls <= 1 /\ cav.version_calls <= 2

(***************************************************************************)
(* Properties of the events that end the wait (SpecWaitEvents)             *)
(***************************************************************************)
\* C23: the event that ends the wait, by success or by failure, belongs to
\* the request waited for.
C23_EndedByOwnEvent == wfe.cause # NoEvent => wfe.cause.request = "mine"

\* the last batch, oldest event first
OldestFirst == [i \in 1..Len(wfe.events) |-> wfe.events[Len(wfe.events) + 1 - i]]

IsTerminal(event) ==
    \/ event.message \in SuccessMessages
    \/ event.message \in FailureMessages
    \/ event.message = "create.ecsdockerrun1"

EndsWith(event) ==
    IF event.message \in SuccessMessages THEN "return"
    ELSE IF event.message \in FailureMessages THEN "ServiceError"
    ELSE "NotSupportedError"

\* C24: the events examined are the oldest events of the batch, oldest
\* first; they are the ones streamed when events are streamed; none but the
\* last examined is terminal; a terminal event ends the wait, success by
\* return and failure by ServiceError, and only a terminal event does; a
\* batch of the second loop without a terminal event is examined whole.
C24_OldestFirstUntilTerminal ==
    LET n == Len(wfe.examined)
    IN  /\ n <= Len(wfe.events)
        /\ \A i \in 1..n : wfe.examined[i] = OldestFirst[i]
        /\ wfe.streamed = IF wfe.stream_events THEN wfe.examined ELSE <<>>
        /\ \A i \in 1..(n - 1) : ~IsTerminal(wfe.examined[i])
        /\ (n > 0 /\ IsTerminal(wfe.examined[n])) =>
              /\ wfe.pc = "done"
              /\ wfe.cause = wfe.examined[n]
              /\ wfe.result = EndsWith(wfe.examined[n])
        /\ wfe.cause # NoEvent =>
              n > 0 /\ wfe.cause = wfe.examined[n] /\ IsTerminal(wfe.cause)
        /\ (/\ wfe.pc = "done"
            /\ wfe.fetches > 0
            /\ wfe.result \in {"return", "ServiceError", "NotSupportedError"}) =>
              wfe.cause # NoEvent
        /\ (/\ wfe.polled = "second"
            /\ wfe.result # "FetchError"
            /\ \A i \in 1..n : ~IsTerminal(wfe.examined[i])) =>
              n = Len(wfe.events)

\* a batch of the second loop whose oldest event is a failure: the newer
\* event is left alone
C24_Witness ==
    /\ wfe.polled = "second"
    /\ wfe.stream_events
    /\ Len(wfe.events) = 2
    /\ wfe.events[1].message = "event.greenmessage"
    /\ wfe.examined = <<wfe.events[2]>>
    /\ wfe.result = "ServiceError"

\* C25: once the streamer is obtained end_stream is called exactly once, at
\* the exit, whatever the exit; with a timeout of 0 nothing is fetched and
\* the streamer is not touched.
C25_EndStreamOnce ==
    /\ wfe.pc \in {"first", "second"} =>
          wfe.streamer = "open" /\ wfe.end_streams = 0
    /\ (wfe.pc = "done" /\ wfe.timediff > 0) =>
          wfe.streamer = "ended" /\ wfe.end_streams = 1
    /\ (wfe.pc = "done" /\ wfe.timediff = 0) =>
          /\ wfe.streamer = "none"
          /\ wfe.end_streams = 0
          /\ wfe.fetches = 0
          /\ wfe.result = "return"

C25_Witness ==
    /\ wfe.pc = "done"
    /\ wfe.result = "TimeoutError"
    /\ wfe.end_streams = 1

(***************************************************************************)
(* Properties of get_config_setting (SpecGet)                              *)
(***************************************************************************)
\* the project root seen from the working directory of f, if there is one
Initialized(f) == \E d \in 1..f.cwd : f.eb[d]

RootOf(f) ==
    CHOOSE d \in 1..f.cwd : f.eb[d] /\ \A e \in (d + 1)..f.cwd : ~f.eb[e]

Defines(file, section, key_name) ==
    /\ file.exists
    /\ section \in DOMAIN file.config
    /\ key_name \in DOMAIN file.config[section]

\* the value that the files of the project give to the setting read last:
\* the local file's if it defines it, else the global file's, else None
Chosen ==
    LET f == lastFile.before
        section == lastFile.args[1]
        key_name == lastFile.args[2]
        local == f.local[RootOf(f)]
        global == f.global[RootOf(f)]
    IN  IF Defines(local, section, key_name)
        THEN [defined |-> TRUE, value |-> local.config[section][key_name]]
        ELSE IF Defines(global, section, key_name)
        THEN [defined |-> TRUE, value |-> global.config[section][key_name]]
        ELSE [defined |-> FALSE, value |-> None]

OutsideProject ==
    LET default == lastFile.args[3]
    IN  IF default = Marker
        THEN lastFile.raised = "NotInitializedError"
        ELSE lastFile.raised = "" /\ lastFile.value = default

\* C26 as stated: the local value when the local file defines the setting,
\* otherwise the global value; the default when neither defines it and one
\* is supplied; outside a project the default, or NotInitializedError.
C26_LocalThenGlobalThenDefault ==
    lastFile.name = "get_config_setting" =>
        IF ~Initialized(lastFile.before) THEN OutsideProject
        ELSE /\ lastFile.raised = ""
             /\ Chosen.defined => lastFile.value = Chosen.value
             /\ (~Chosen.defined /\ lastFile.args[3] # Marker) =>
                   lastFile.value = lastFile.args[3]

\* C26: the setting's value is the local file's when the local file defines
\* it, otherwise the global file's, otherwise None; when that value is None
\* and a default is supplied the default is returned, otherwise the value;
\* outside a project the default, or NotInitializedError.
C26_LocalThenGlobalNoneGivesDefault ==
    lastFile.name = "get_config_setting" =>
        IF ~Initialized(lastFile.before) THEN OutsideProject
        ELSE /\ lastFile.raised = ""
             /\ lastFile.value =
                   IF Chosen.value = None /\ lastFile.args[3] # Marker
                   THEN lastFile.args[3]
                   ELSE Chosen.value

\* the local file holds None for the setting, the global file a value, and
\* the default comes back
C26_Witness ==
    /\ lastFile.name = "get_config_setting"
    /\ Initialized(lastFile.before)
    /\ lastFile.args = <<"global", "default_region", "dflt">>
    /\ Defines(fs.local[2], "global", "default_region")
    /\ fs.local[2].config["global"]["default_region"] = None
    /\ Defines(fs.global[2], "global", "default_region")
    /\ fs.global[2].config["global"]["default_region"] = "global"
    /\ lastFile.value = "dflt"

\* the local value wins over the global one
LocalWins ==
    /\ lastFile.name = "get_config_setting"
    /\ Initialized(lastFile.before)
    /\ Defines(fs.global[2], "global", "default_region")
    /\ fs.global[2].config["global"]["default_region"] = "global"
    /\ lastFile.value = "local"

(***************************************************************************)
(* Properties of the working directory (SpecRoot)                          *)
(***************************************************************************)
RootOperations ==
    {"get_config_setting", "write_config_setting", "get_zip_location",
     "delete_app_versions", "create_app_version"}

\* clean_up goes to the project root as well
AllRootOperations == RootOperations \cup {"clean_up"}

\* C28: an operation that goes to the project root leaves the working
\* directory where it was, when it returns and when it raises.
C28_WorkingDirectoryRestored ==
    lastFile.name \in RootOperations => fs.cwd = lastFile.before.cwd

\* the same without create_app_version
OthersRestore ==
    lastFile.name \in AllRootOperations \ {"create_app_version"} =>
        fs.cwd = lastFile.before.cwd

(***************************************************************************)
(* Properties of the branch settings (SpecBranch)                          *)
(***************************************************************************)
\* the project's config.yml before and after the last operation
RootConfigBefore == GetYamlDict(lastFile.before, RootOf(lastFile.before))
RootConfigAfter == GetYamlDict(fs, RootOf(lastFile.before))

\* the settings stored for a branch in a config
BranchSettings(config, branch_name) ==
    IF "branch-defaults" \in DOMAIN config
       /\ branch_name \in DOMAIN config["branch-defaults"]
    THEN config["branch-defaults"][branch_name]
    ELSE EmptyDict

\* C27: write_setting_to_current_branch(key, value) changes that setting of
\* the current branch only: the branch's other settings, the other branches
\* and the other sections keep their values.
C27_OnlyThatSettingChanges ==
    (lastFile.name = "write_setting_to_current_branch" /\ lastFile.raised = "") =>
        LET branch_name == lastFile.args[1]
            keyname == lastFile.args[2]
            old == BranchSettings(RootConfigBefore, branch_name)
            new == BranchSettings(RootConfigAfter, branch_name)
        IN  /\ keyname \in DOMAIN new /\ new[keyname] = lastFile.args[3]
            /\ \A k \in DOMAIN old \ {keyname} :
                  k \in DOMAIN new /\ new[k] = old[k]
            /\ \A b \in Branches \ {branch_name} :
                  BranchSettings(RootConfigAfter, b)
                      = BranchSettings(RootConfigBefore, b)
            /\ \A section \in DOMAIN RootConfigBefore \ {"branch-defaults"} :
                  /\ section \in DOMAIN RootConfigAfter
                  /\ RootConfigAfter[section] = RootConfigBefore[section]

\* the same without the branch's other settings
RestKept ==
    (lastFile.name = "write_setting_to_current_branch" /\ lastFile.raised = "") =>
        LET branch_name == lastFile.args[1]
            new == BranchSettings(RootConfigAfter, branch_name)
        IN  /\ new = OneSetting(lastFile.args[2], lastFile.args[3])
            /\ \A b \in Branches \ {branch_name} :
                  BranchSettings(RootConfigAfter, b)
                      = BranchSettings(RootConfigBefore, b)
            /\ \A section \in DOMAIN RootConfigBefore \ {"branch-defaults"} :
                  /\ section \in DOMAIN RootConfigAfter
                  /\ RootConfigAfter[section] = RootConfigBefore[section]

====
